---- MODULE Spec2Model ----
(***************************************************************************)
(* Test-X: the test-case execution and verification engine.                *)
(*                                                                         *)
(* APITester (App/V1.py, App/V4.py, Manual_scripts/auto_ap.py) issues HTTP  *)
(* requests against a target resource, judges each answer against an       *)
(* expected status code and appends the judgment to self.results.          *)
(* run_full_crud_test drives the fixed CRUD lifecycle, and                 *)
(* run_ai_generated_tests replays a list of test-case descriptors.         *)
(*                                                                         *)
(* Text is modelled as a sequence of tokens (a token is a run of           *)
(* characters), so that f-strings become concatenations (\o).              *)
(* The wall-clock 'timestamp' field of a log entry is read by no judgment  *)
(* and is left out of the entries.                                         *)
(***************************************************************************)
EXTENDS Integers, Sequences, FiniteSets, TLC

(***************************************************************************)
(* Bounds of the model.                                                    *)
(***************************************************************************)
\* longest list of descriptors handed to run_ai_generated_tests
MaxCases == 2
\* a data-driven run starts only while the log stays within this length
MaxLog == 2
\* most requests of one lifecycle run that fail (other status, or transport)
MaxFaults == 2
\* longest log handed to get_summary on its own
MaxEntries == 5
\* most records a store holds when a client adds one or a run starts
MaxRecords == 2

(***************************************************************************)
(* Text helpers.                                                           *)
(***************************************************************************)
Digit(d) ==
    CASE d = 0 -> "0" [] d = 1 -> "1" [] d = 2 -> "2" [] d = 3 -> "3"
      [] d = 4 -> "4" [] d = 5 -> "5" [] d = 6 -> "6" [] d = 7 -> "7"
      [] d = 8 -> "8" [] d = 9 -> "9"

\* str(n) / f"{n}" for a non-negative integer: its decimal digits
RECURSIVE ToText(_)
ToText(n) ==
    IF n < 10 THEN <<Digit(n)>> ELSE ToText(n \div 10) \o <<Digit(n % 10)>>

\* s.rstrip(ch): every trailing ch is removed
RECURSIVE Rstrip(_, _)
Rstrip(s, ch) ==
    IF s # <<>> /\ s[Len(s)] = ch
    THEN Rstrip(SubSeq(s, 1, Len(s) - 1), ch)
    ELSE s

\* s[:n]
Truncate(s, n) == SubSeq(s, 1, IF Len(s) < n THEN Len(s) ELSE n)

\* needle in haystack, for two texts
Contains(haystack, needle) ==
    \E i \in 0..(Len(haystack) - Len(needle)) :
        SubSeq(haystack, i + 1, i + Len(needle)) = needle

IsPrefix(s, t) == Len(s) <= Len(t) /\ SubSeq(t, 1, Len(s)) = s

(***************************************************************************)
(* Parsed JSON values, all of one record shape:                            *)
(*   t: the type, n: the number (or 1/0 for true/false), s: the text of a   *)
(*   string, m: the members of an object (key -> value) or the items of a   *)
(*   list ("0", "1", ... -> value).                                        *)
(***************************************************************************)
EmptyMap == [k \in {} |-> 0]
JNull == [t |-> "null", n |-> 0, s |-> <<>>, m |-> EmptyMap]
JNum(x) == [t |-> "num", n |-> x, s |-> <<>>, m |-> EmptyMap]
JBool(b) == [t |-> "bool", n |-> IF b THEN 1 ELSE 0, s |-> <<>>, m |-> EmptyMap]
JStr(x) == [t |-> "str", n |-> 0, s |-> x, m |-> EmptyMap]
JList(items) == [t |-> "list", n |-> 0, s |-> <<>>, m |-> items]
JObj(members) == [t |-> "obj", n |-> 0, s |-> <<>>, m |-> members]

\* Python truth value of a parsed JSON value (None, False, 0, "", [], {} are falsy)
Truthy(j) ==
    CASE j.t = "null" -> FALSE
      [] j.t = "bool" -> j.n = 1
      [] j.t = "num" -> j.n # 0
      [] j.t = "str" -> j.s # <<>>
      [] j.t = "list" -> DOMAIN j.m # {}
      [] j.t = "obj" -> DOMAIN j.m # {}

\* a or b
PyOr(a, b) == IF Truthy(a) THEN a ELSE b

\* d.get(key) on a dict: None when the key is absent
DictGet(d, key) == IF key \in DOMAIN d.m THEN d.m[key] ELSE JNull

\* str(value), as f"/{resource_id}" formats it
PyStr(j) ==
    CASE j.t = "null" -> <<"None">>
      [] j.t = "bool" -> IF j.n = 1 THEN <<"True">> ELSE <<"False">>
      [] j.t = "num" -> ToText(j.n)
      [] j.t = "str" -> j.s
      [] j.t = "list" -> <<"[...]">>
      [] j.t = "obj" -> <<"{...}">>

(***************************************************************************)
(* HTTP answers.  A request is answered by a response (any status code,    *)
(* 4xx and 5xx included) or fails in transport (RequestException).         *)
(* A body is its raw text together with what response.json() makes of it.  *)
(***************************************************************************)
Body(text, json) == [text |-> text, json |-> json, valid |-> TRUE]
\* a body that is not JSON: response.json() raises JSONDecodeError
TextBody(text) == [text |-> text, json |-> JNull, valid |-> FALSE]

Response(status, body) ==
    [received |-> TRUE, status_code |-> status, text |-> body.text,
     json |-> body.json, valid |-> body.valid, elapsed |-> "0.05",
     error |-> <<>>]

TransportError(e) ==
    [received |-> FALSE, status_code |-> 0, text |-> <<>>, json |-> JNull,
     valid |-> FALSE, elapsed |-> "", error |-> e]

\* Python's None where a response is expected
None == TransportError(<<>>)

\* bool(response) is response.ok: a status below 400
ResponseTruthy(r) == r.received /\ r.status_code < 400

\* str(e) of the RequestException raised on a transport failure
ErrorTexts == {<<"Read timed out">>}

ErrorBody == Body(<<"{error: Not found}">>, JObj("error" :> JStr(<<"Not found">>)))

(***************************************************************************)
(* Outcome Recorder: APITester.log_result                                  *)
(***************************************************************************)
Entry(test_name, status, details) ==
    [test |-> test_name, status |-> status, details |-> details]

\* a recorder that keeps only the newest entry
log_result_latest(log, test_name, status, details) ==
    <<Entry(test_name, status, details)>>

log_result(log, test_name, status, details) ==
    Append(log, Entry(test_name, status, details))

(***************************************************************************)
(* HTTP Request Executor: what one call appends and returns.               *)
(* JudgeResponse is the part shared by test_get .. test_request after the  *)
(* request has been made: the if/else on the status and the except branch. *)
(* withText: whether the FAIL detail carries response.text[:limit].        *)
(***************************************************************************)
PassDetail(ans) ==
    <<"Status: ">> \o ToText(ans.status_code)
        \o <<", Response time: ", ans.elapsed, "s">>

MismatchDetail(expected_status, ans, withText, limit) ==
    <<"Expected status ">> \o ToText(expected_status) \o <<", got ">>
        \o ToText(ans.status_code)
        \o (IF withText THEN <<". Response: ">> \o Truncate(ans.text, limit)
                        ELSE <<>>)

ErrorDetail(ans) == <<"Error: ">> \o ans.error

\* a judgment by response.ok instead of the expected status
StatusMatchesOk(ans, expected_status) == ans.status_code < 400

StatusMatches(ans, expected_status) == ans.status_code = expected_status

\* an executor that drops a transport failure without recording it
JudgeResponseDrop(log, test_name, expected_status, ans, withText, limit) ==
    IF ~ans.received
    THEN [results |-> log, ret |-> None]
    ELSE IF StatusMatches(ans, expected_status)
    THEN [results |-> log_result(log, test_name, "PASS", PassDetail(ans)),
          ret |-> ans]
    ELSE [results |-> log_result(log, test_name, "FAIL",
                        MismatchDetail(expected_status, ans, withText, limit)),
          ret |-> None]

JudgeResponse(log, test_name, expected_status, ans, withText, limit) ==
    IF ~ans.received
    THEN [results |-> log_result(log, test_name, "FAIL", ErrorDetail(ans)),
          ret |-> None]
    ELSE IF StatusMatches(ans, expected_status)
    THEN [results |-> log_result(log, test_name, "PASS", PassDetail(ans)),
          ret |-> ans]
    ELSE [results |-> log_result(log, test_name, "FAIL",
                        MismatchDetail(expected_status, ans, withText, limit)),
          ret |-> None]

\* one invocation of the executor, as the network saw it
Call(method, url, data, expected_status, sent, ans) ==
    [method |-> method, url |-> url, data |-> data,
     expected_status |-> expected_status, sent |-> sent,
     received |-> sent /\ ans.received,
     status_code |-> IF sent THEN ans.status_code ELSE 0,
     error |-> IF sent THEN ans.error ELSE <<>>]

\* a URL with a slash put between the base and the endpoint
UrlSlashed(base, endpoint) == base \o <<"/">> \o endpoint

Url(base, endpoint) == base \o endpoint

test_get(log, base, endpoint, expected_status, ans) ==
    JudgeResponse(log, <<"GET ">> \o Url(base, endpoint), expected_status,
                  ans, FALSE, 0)
        @@ [call |-> Call("GET", Url(base, endpoint), JNull, expected_status,
                          TRUE, ans)]

test_post(log, base, endpoint, data, expected_status, ans) ==
    JudgeResponse(log, <<"POST ">> \o Url(base, endpoint), expected_status,
                  ans, TRUE, 200)
        @@ [call |-> Call("POST", Url(base, endpoint), data, expected_status,
                          TRUE, ans)]

test_put(log, base, endpoint, data, expected_status, ans) ==
    JudgeResponse(log, <<"PUT ">> \o Url(base, endpoint), expected_status,
                  ans, TRUE, 200)
        @@ [call |-> Call("PUT", Url(base, endpoint), data, expected_status,
                          TRUE, ans)]

test_patch(log, base, endpoint, data, expected_status, ans) ==
    JudgeResponse(log, <<"PATCH ">> \o Url(base, endpoint), expected_status,
                  ans, TRUE, 200)
        @@ [call |-> Call("PATCH", Url(base, endpoint), data, expected_status,
                          TRUE, ans)]

test_delete(log, base, endpoint, expected_status, ans) ==
    JudgeResponse(log, <<"DELETE ">> \o Url(base, endpoint), expected_status,
                  ans, FALSE, 0)
        @@ [call |-> Call("DELETE", Url(base, endpoint), JNull,
                          expected_status, TRUE, ans)]

\* the methods test_request dispatches on
SupportedMethods == {"GET", "POST", "PUT", "PATCH", "DELETE"}

\* GET and DELETE are sent without a body
SentData(method, data) == IF method \in {"GET", "DELETE"} THEN JNull ELSE data

\* a detail that does not say which method was refused
UnsupportedDetailAnon(method) == <<"Unsupported method">>

UnsupportedDetail(method) == <<"Unsupported method: ", method>>

\* a test_request that returns on an unsupported method without recording
test_request_silent(log, base, method, endpoint, data, expected_status, test_name, ans) ==
    IF method \in SupportedMethods
    THEN JudgeResponse(log, test_name, expected_status, ans, TRUE, 150)
            @@ [call |-> Call(method, Url(base, endpoint),
                              SentData(method, data), expected_status,
                              TRUE, ans)]
    ELSE [results |-> log, ret |-> None,
          call |-> Call(method, Url(base, endpoint), JNull, expected_status,
                        FALSE, None)]

\* V4 APITester.test_request: the generic executor of the data-driven runner
test_request(log, base, method, endpoint, data, expected_status, test_name, ans) ==
    IF method \in SupportedMethods
    THEN JudgeResponse(log, test_name, expected_status, ans, TRUE, 150)
            @@ [call |-> Call(method, Url(base, endpoint),
                              SentData(method, data), expected_status,
                              TRUE, ans)]
    ELSE [results |-> log_result(log, test_name, "FAIL",
                                 UnsupportedDetail(method)),
          ret |-> None,
          call |-> Call(method, Url(base, endpoint), JNull, expected_status,
                        FALSE, None)]

(***************************************************************************)
(* Summary Aggregator: APITester.get_summary.  pass_rate is the fraction   *)
(* passed/total*100, kept as numerator and denominator.                    *)
(***************************************************************************)
RECURSIVE CountStatus(_, _)
CountStatus(log, status) ==
    IF log = <<>> THEN 0
    ELSE CountStatus(Tail(log), status)
            + (IF Head(log).status = status THEN 1 ELSE 0)

\* a summary without the guard against an empty log
get_summary_unguarded(log) ==
    LET total == Len(log)
        passed == CountStatus(log, "PASS")
    IN [total |-> total, passed |-> passed, failed |-> total - passed,
        pass_rate |-> [num |-> passed * 100, den |-> total]]

get_summary(log) ==
    LET total == Len(log)
        passed == CountStatus(log, "PASS")
    IN [total |-> total, passed |-> passed, failed |-> total - passed,
        pass_rate |-> IF total > 0 THEN [num |-> passed * 100, den |-> total]
                                   ELSE [num |-> 0, den |-> 1]]

NoSummary == [total |-> -1, passed |-> -1, failed |-> -1,
              pass_rate |-> [num |-> 0, den |-> 1]]

(***************************************************************************)
(* Expectation Verifier, field check: APITester.validate_response_data.    *)
(* A field path is a text in which "." is a token of its own:              *)
(* "data.id" is <<"data", ".", "id">>.                                     *)
(***************************************************************************)
IsDotted(field) == \E i \in 1..Len(field) : field[i] = "."

\* field.split('.')
RECURSIVE Split(_)
Split(field) ==
    IF field = <<>> THEN <<>>
    ELSE IF Head(field) = "." THEN Split(Tail(field))
    ELSE <<Head(field)>> \o Split(Tail(field))

\* the descent of the for/else over parts: TRUE when a segment is missing
RECURSIVE DescentMissing(_, _)
DescentMissing(current, parts) ==
    IF parts = <<>> THEN FALSE
    ELSE IF current.t = "obj" /\ Head(parts) \in DOMAIN current.m
    THEN DescentMissing(current.m[Head(parts)], Tail(parts))
    ELSE TRUE

\* 'field not in data' raises TypeError when data is None, a number or a bool
NotInRaises(data) == data.t \in {"null", "num", "bool"}

\* 'field not in data' for a dict (key), a list (item) and a str (substring)
NotIn(field, data) ==
    CASE data.t = "obj" -> field[1] \notin DOMAIN data.m
      [] data.t = "list" -> \A k \in DOMAIN data.m : data.m[k] # JStr(field)
      [] data.t = "str" -> ~Contains(data.s, field)
      [] OTHER -> TRUE

FieldMissing(field, data) ==
    IF IsDotted(field) THEN DescentMissing(data, Split(field))
    ELSE NotIn(field, data)

RECURSIVE MissingFields(_, _)
MissingFields(fields, data) ==
    IF fields = <<>> THEN <<>>
    ELSE (IF FieldMissing(Head(fields), data) THEN <<Head(fields)>> ELSE <<>>)
            \o MissingFields(Tail(fields), data)

\* raised: an exception other than JSONDecodeError leaves the function
validate_response_data(response, fields) ==
    IF ~response.valid
    THEN [raised |-> FALSE, ok |-> FALSE, missing |-> <<>>,
          msg |-> "Invalid JSON response"]
    ELSE IF fields = <<>>
    THEN [raised |-> FALSE, ok |-> TRUE, missing |-> <<>>,
          msg |-> "Response validated"]
    ELSE IF NotInRaises(response.json)
            /\ \E i \in 1..Len(fields) : ~IsDotted(fields[i])
    THEN [raised |-> TRUE, ok |-> FALSE, missing |-> <<>>, msg |-> "TypeError"]
    ELSE LET missing == MissingFields(fields, response.json)
         IN IF missing # <<>>
            THEN [raised |-> FALSE, ok |-> FALSE, missing |-> missing,
                  msg |-> "Missing fields"]
            ELSE [raised |-> FALSE, ok |-> TRUE, missing |-> <<>>,
                  msg |-> "All expected fields present"]

\* validate_response_data has not been called
NoValidation == [raised |-> FALSE, ok |-> FALSE, missing |-> <<>>, msg |-> ""]

(***************************************************************************)
(* Resource Identity Tracker: the try block of run_full_crud_test that     *)
(* reads the id off the creation response.  JNull is Python's None; any    *)
(* exception (body not JSON, body or 'data' not a dict) is swallowed and   *)
(* leaves resource_id None.                                                *)
(***************************************************************************)
ExtractId(post_response) ==
    IF ~post_response.valid THEN JNull
    ELSE IF post_response.json.t # "obj" THEN JNull
    ELSE LET d == post_response.json
             first == PyOr(PyOr(DictGet(d, "id"), DictGet(d, "_id")),
                           DictGet(d, "uuid"))
         IN IF Truthy(first) THEN first
            ELSE IF "data" \notin DOMAIN d.m THEN JNull
            ELSE IF d.m["data"].t # "obj" THEN JNull
            ELSE DictGet(d.m["data"], "id")

\* a comparison that does not look inside a 'data' envelope
MismatchesTopLevel(sent, fetched) ==
    {key \in DOMAIN sent.m : DictGet(fetched.json, key) # sent.m[key]}

\* the comparison loop of the update verification (auto_ap.py): the keys of
\* the sent body whose value differs in the fetched body
Mismatches(sent, fetched) ==
    LET verify_data == fetched.json
        actual_data == IF "data" \in DOMAIN verify_data.m
                       THEN verify_data.m["data"] ELSE verify_data
    IN {key \in DOMAIN sent.m : DictGet(actual_data, key) # sent.m[key]}

\* the verification block raises (and the bare except swallows it) when the
\* body is not JSON or is not a dict, or its 'data' member is not a dict
VerifyRaises(fetched) ==
    \/ ~fetched.valid
    \/ fetched.json.t # "obj"
    \/ /\ "data" \in DOMAIN fetched.json.m
       /\ fetched.json.m["data"].t # "obj"

\* the verification raises before 'mismatches = []' is reached: json() or
\* verify_data.get fails
RaisesBeforeList(fetched) == ~fetched.valid \/ fetched.json.t # "obj"

(***************************************************************************)
(* Inputs and target answers the model draws from.                         *)
(***************************************************************************)
\* base_url arguments of the constructor
RawBaseUrls ==
    {<<"http://x/items">>, <<"http://x/items", "/">>,
     <<"http://x/items", "/", "/">>}

\* the default bodies of run_full_crud_test (auto_ap.py)
CreateData ==
    JObj("name" :> JStr(<<"Test Item">>)
         @@ "description" :> JStr(<<"This is a test item">>)
         @@ "value" :> JNum(123))
UpdateData ==
    JObj("name" :> JStr(<<"Updated Test Item">>)
         @@ "description" :> JStr(<<"This item has been updated">>)
         @@ "value" :> JNum(456))
PatchData ==
    JObj("description" :> JStr(<<"Partially updated description">>))

\* expected_fields arguments: None, a plain field, a dotted field
ExpectedFieldsChoices == {<<>>, << <<"id">> >>, << <<"data", ".", "id">> >>}

\* bodies of a 201 answer to the Create POST
CreatedBodies ==
    { Body(<<"{id: 7, name: Apple}">>,
           JObj("id" :> JNum(7) @@ "name" :> JStr(<<"Apple">>))),
      Body(<<"{id: 7, _id: m1}">>,
           JObj("id" :> JNum(7) @@ "_id" :> JStr(<<"m1">>))),
      Body(<<"{id: 0, _id: m1}">>,
           JObj("id" :> JNum(0) @@ "_id" :> JStr(<<"m1">>))),
      Body(<<"{id: null, uuid: u1}">>,
           JObj("id" :> JNull @@ "uuid" :> JStr(<<"u1">>))),
      Body(<<"{data: {id: 9}}">>,
           JObj("data" :> JObj("id" :> JNum(9)))),
      Body(<<"{name: Apple}">>, JObj("name" :> JStr(<<"Apple">>))),
      Body(<<"{name: Apple, data: [1]}">>,
           JObj("name" :> JStr(<<"Apple">>)
                @@ "data" :> JList("0" :> JNum(1)))),
      Body(<<"null">>, JNull),
      TextBody(<<"<html>Created</html>">>) }

\* bodies of a 200 answer to GET base/{id}
ResourceBodies ==
    { Body(<<"{name: Updated Test Item, ...}">>,
           JObj("name" :> JStr(<<"Updated Test Item">>)
                @@ "description" :> JStr(<<"This item has been updated">>)
                @@ "value" :> JNum(456))),
      Body(<<"{data: {description: Partially updated description}}">>,
           JObj("data" :> JObj("description" :>
                               JStr(<<"Partially updated description">>)))),
      Body(<<"{name: Test Item, ...}">>,
           JObj("name" :> JStr(<<"Test Item">>)
                @@ "description" :> JStr(<<"This is a test item">>)
                @@ "value" :> JNum(123))),
      Body(<<"{data: [1]}">>, JObj("data" :> JList("0" :> JNum(1)))),
      Body(<<"null">>, JNull),
      TextBody(<<"<html>OK</html>">>) }

\* the status of a lifecycle answer that is not the expected one
FaultStatuses == {500}

\* the answers the target may give to a lifecycle request expecting status e
LifecycleAnswers(e, bodies) ==
    {Response(e, b) : b \in bodies}
        \cup {Response(s, ErrorBody) : s \in FaultStatuses}
        \cup {TransportError(t) : t \in ErrorTexts}

IsFault(ans, e) == ~ans.received \/ ans.status_code # e

\* the answers the target may give to a request of the data-driven runner
RunnerStatuses == {200, 404, 500}
RunnerAnswers ==
    {Response(s, ErrorBody) : s \in RunnerStatuses}
        \cup {TransportError(t) : t \in ErrorTexts}

\* test-case descriptors (dicts; a key may be unset)
TestCases ==
    { [method |-> "GET", endpoint |-> <<"/nonexistent-id-12345">>,
       data |-> JNull, expected_status |-> 404,
       description |-> <<"missing id">>, category |-> "negative_test"],
      [method |-> "PUT", endpoint |-> <<"/", "9">>,
       data |-> JObj("name" :> JStr(<<"Apple">>)), expected_status |-> 200,
       description |-> <<"update 9">>, category |-> "happy_path"],
      [method |-> "TRACE", endpoint |-> <<>>, data |-> JNull,
       expected_status |-> 200, description |-> <<"trace">>,
       category |-> "other"],
      [method |-> "DELETE", expected_status |-> 404] }

RECURSIVE SeqsUpTo(_, _)
SeqsUpTo(S, n) ==
    IF n = 0 THEN {<<>>}
    ELSE LET shorter == SeqsUpTo(S, n - 1)
         IN shorter \cup {Append(q, x) : q \in shorter, x \in S}

\* test_case.get(key, default)
TcGet(tc, key, default) == IF key \in DOMAIN tc THEN tc[key] ELSE default

(***************************************************************************)
(* Values of the generator and of the lifecycle arguments.                 *)
(***************************************************************************)
\* what json.loads gives: a list of items, or a non-empty object
JsonList(items) == [t |-> "list", items |-> items]
JsonDict == [t |-> "dict", items |-> <<>>]
\* the generator method has not returned
NotReturned == [t |-> "none", items |-> <<>>]

\* the data arguments of run_full_crud_test (JNull is None)
CrudArgs(create_data, update_data, patch_data) ==
    [create_data |-> create_data, update_data |-> update_data,
     patch_data |-> patch_data]
NoArgs == CrudArgs(JNull, JNull, JNull)

(***************************************************************************)
(* State.                                                                  *)
(***************************************************************************)
VARIABLES
    base_url,        \* self.base_url
    results,         \* self.results: the outcome log
    calls,           \* every executor invocation so far, as the network saw it
    pc,              \* position of the running method ("idle": none runs)
    test_cases,      \* run_ai_generated_tests: the list being replayed
    idx,             \* run_ai_generated_tests: i of enumerate(test_cases, 1)
    mark,            \* len(self.results) when the running method started
    expected_fields, \* run_full_crud_test: the expected_fields argument
    resource_id,     \* run_full_crud_test: resource_id (JNull is None)
    post_response,   \* run_full_crud_test: post_response
    verify_response, \* run_full_crud_test: verify_response
    mismatches,      \* run_full_crud_test: keys listed by the last verification
    faults,          \* failed requests of the current lifecycle run
    exception,       \* the exception that left the running method, or "none"
    validation,      \* what validate_response_data returned, called on its own
    summary,         \* the value get_summary returned since the last run
    raw_url,         \* the base_url argument of APITester.__init__
    crud_args,       \* run_full_crud_test: create_data, update_data, patch_data
    attempt,         \* GeminiTestGenerator: attempt of the retry loop
    model_answers,   \* what generate_content did on each call of this run
    returned,        \* what the generator method returned
    session_cases,   \* st.session_state.test_cases
    employees,       \* one.py: the employees list
    products,        \* two.py: the products dict
    next_id,         \* two.py: next_id
    before,          \* the records of the target store when the run started
    v1_pc,           \* V1.py run_full_crud_test: position
    v1_results,      \* V1.py APITester: self.results
    v1_calls,        \* V1.py APITester: every executor invocation so far
    v1_resource_id   \* V1.py run_full_crud_test: resource_id

genVars == <<attempt, model_answers, returned, session_cases>>
storeVars == <<employees, products, next_id, before>>
v1Vars == <<v1_pc, v1_results, v1_calls, v1_resource_id>>
extraVars == <<raw_url, crud_args, genVars, storeVars, v1Vars>>

vars == <<base_url, results, calls, pc, test_cases, idx, mark, expected_fields,
          resource_id, post_response, verify_response, mismatches, faults,
          exception, validation, summary, extraVars>>

\* a specification that runs one program leaves the others as they start:
\* no generator call, empty stores, no second tester
NoGenerator ==
    /\ attempt = 0
    /\ model_answers = <<>>
    /\ returned = NotReturned
    /\ session_cases = JsonList(<<>>)

NoStores ==
    /\ employees = <<>>
    /\ products = <<>>
    /\ next_id = 1
    /\ before = {}

NoV1 ==
    /\ v1_pc = "idle"
    /\ v1_results = <<>>
    /\ v1_calls = <<>>
    /\ v1_resource_id = JNull

\* raw_url is kept only by the specification that reads it
Elsewhere ==
    /\ raw_url = <<>>
    /\ crud_args = NoArgs
    /\ NoGenerator
    /\ NoStores
    /\ NoV1

runnerVars == <<test_cases, idx>>
crudVars == <<expected_fields, resource_id, post_response, verify_response,
              mismatches, faults>>

\* APITester.__init__
Init ==
    /\ \E raw \in RawBaseUrls : base_url = Rstrip(raw, "/")
    /\ results = <<>>
    /\ calls = <<>>
    /\ pc = "idle"
    /\ test_cases = <<>>
    /\ idx = 0
    /\ mark = 0
    /\ expected_fields = <<>>
    /\ resource_id = JNull
    /\ post_response = None
    /\ verify_response = None
    /\ mismatches = {}
    /\ faults = 0
    /\ exception = "none"
    /\ validation = NoValidation
    /\ summary = NoSummary
    /\ Elsewhere

(***************************************************************************)
(* Data-Driven Test Runner: APITester.run_ai_generated_tests (V4.py)       *)
(***************************************************************************)
\* the call: the for loop is entered with the list
StartAITests ==
    /\ pc = "idle"
    /\ \E tcs \in SeqsUpTo(TestCases, MaxCases) :
        /\ Len(results) + Len(tcs) <= MaxLog
        /\ test_cases' = tcs
    /\ idx' = 1
    /\ mark' = Len(results)
    /\ pc' = "ai_tests"
    /\ summary' = NoSummary
    /\ UNCHANGED <<extraVars, base_url, validation, results, calls, crudVars, exception>>

\* the test name run_ai_generated_tests gives to descriptor i
AITestName(i, tc) ==
    <<"[AI Test ">> \o ToText(i) \o <<"] ">>
        \o TcGet(tc, "description", <<"Test ">> \o ToText(i))

\* a runner that stops judging once the log holds a failure
RunTestCaseFailFast(log, base, i, tc, ans) ==
    IF \E k \in 1..Len(log) : log[k].status = "FAIL"
    THEN [results |-> log_result(log, AITestName(i, tc), "FAIL",
                                 <<"Skipped after a failure">>),
          ret |-> None,
          call |-> Call(TcGet(tc, "method", "GET"),
                        Url(base, TcGet(tc, "endpoint", <<>>)),
                        TcGet(tc, "data", JNull),
                        TcGet(tc, "expected_status", 200), TRUE, ans)]
    ELSE test_request(log, base, TcGet(tc, "method", "GET"),
                      TcGet(tc, "endpoint", <<>>), TcGet(tc, "data", JNull),
                      TcGet(tc, "expected_status", 200), AITestName(i, tc),
                      ans)

\* the test_request call of iteration i
RunTestCase(log, base, i, tc, ans) ==
    test_request(log, base, TcGet(tc, "method", "GET"),
                 TcGet(tc, "endpoint", <<>>), TcGet(tc, "data", JNull),
                 TcGet(tc, "expected_status", 200), AITestName(i, tc), ans)

\* one iteration of the loop
AITestStep ==
    /\ pc = "ai_tests"
    /\ idx <= Len(test_cases)
    /\ \E ans \in RunnerAnswers :
        LET r == RunTestCase(results, base_url, idx, test_cases[idx], ans)
        IN /\ results' = r.results
           /\ calls' = Append(calls, r.call)
    /\ idx' = idx + 1
    /\ UNCHANGED <<extraVars, base_url, validation, pc, test_cases, mark, crudVars, exception, summary>>

\* the loop is exhausted and the method returns
AITestsReturn ==
    /\ pc = "ai_tests"
    /\ idx > Len(test_cases)
    /\ pc' = "idle"
    /\ test_cases' = <<>>
    /\ idx' = 0
    /\ mark' = 0
    /\ UNCHANGED <<extraVars, base_url, validation, results, calls, crudVars, exception, summary>>

(***************************************************************************)
(* Summary Aggregator, called between runs (V1.py, V4.py)                  *)
(***************************************************************************)
GetSummary ==
    /\ pc \in {"idle", "done"}
    /\ summary' = get_summary(results)
    /\ UNCHANGED <<extraVars, base_url, validation, results, calls, pc, runnerVars, mark, crudVars,
                   exception>>

(***************************************************************************)
(* CRUD Lifecycle Orchestrator: APITester.run_full_crud_test               *)
(* (auto_ap.py; V1.py is the same sequence without the prints and the      *)
(* comparison loop).  One action per request: the method is suspended      *)
(* only while a request awaits its answer.                                 *)
(***************************************************************************)
ListBody == Body(<<"[]">>, JList(EmptyMap))

\* an endpoint that lacks the slash before the id
IdEndpointBare(id) == PyStr(id)

\* f"/{resource_id}"
IdEndpoint(id) == <<"/">> \o PyStr(id)

MissingEndpoint == <<"/nonexistent-id-12345">>

\* what one executor call of the lifecycle does to the log and the network
Executes(r, ans, e) ==
    /\ IsFault(ans, e) => faults < MaxFaults
    /\ results' = r.results
    /\ calls' = Append(calls, r.call)
    /\ faults' = IF IsFault(ans, e) THEN faults + 1 ELSE faults

\* the field check of a response the step got back (if response and
\* expected_fields): TRUE when validate_response_data raises
FieldCheckRaises(ret, fields) ==
    /\ ResponseTruthy(ret)
    /\ fields # <<>>
    /\ validate_response_data(ret, fields).raised

\* a Create step that falls back on a default id when it has no response
IdentityAfterCreateDefault(ret) ==
    IF ResponseTruthy(ret) THEN ExtractId(ret) ELSE JNum(1)

\* the identity the Create step leaves in resource_id
IdentityAfterCreate(ret) ==
    IF ResponseTruthy(ret) THEN ExtractId(ret) ELSE JNull

\* if resource_id: ... else the identity-dependent steps are skipped
AfterListAll(id) == IF Truthy(id) THEN "fetch" ELSE "edge_get"

\* a PUT step that verifies whether or not it got a response
AfterFullUpdateAlways(ret) == "verify_put"

\* if put_response: the verification GET follows
AfterFullUpdate(ret) == IF ResponseTruthy(ret) THEN "verify_put" ELSE "patch"

\* a PATCH step that verifies whether or not it got a response
AfterPartialUpdateAlways(ret) == "verify_patch"

\* if patch_response: the verification GET follows
AfterPartialUpdate(ret) ==
    IF ResponseTruthy(ret) THEN "verify_patch" ELSE "delete"

\* the mismatch list after a verification GET for the sent body: untouched
\* without a response or when the block raises early, left empty when the
\* loop raises on its first key ('data' is not a dict)
VerifiedMismatches(old, sent, ret) ==
    IF ~ResponseTruthy(ret) \/ RaisesBeforeList(ret) THEN old
    ELSE IF VerifyRaises(ret) THEN {}
    ELSE Mismatches(sent, ret)

StartCrudTest ==
    /\ pc = "idle"
    /\ results = <<>>
    /\ \E fields \in ExpectedFieldsChoices : expected_fields' = fields
    /\ resource_id' = JNull
    /\ post_response' = None
    /\ verify_response' = None
    /\ mismatches' = {}
    /\ faults' = 0
    /\ mark' = Len(results)
    /\ pc' = "create"
    /\ summary' = NoSummary
    /\ UNCHANGED <<extraVars, base_url, validation, results, calls, runnerVars, exception>>

\* 1. CREATE: POST base, the field check and the identity extraction
Create ==
    /\ pc = "create"
    /\ \E ans \in LifecycleAnswers(201, CreatedBodies) :
        LET r == test_post(results, base_url, <<>>, CreateData, 201, ans)
        IN /\ Executes(r, ans, 201)
           /\ post_response' = r.ret
           /\ IF FieldCheckRaises(r.ret, expected_fields)
              THEN /\ pc' = "raised"
                   /\ exception' = "TypeError"
                   /\ resource_id' = resource_id
              ELSE /\ pc' = "list"
                   /\ exception' = exception
                   /\ resource_id' = IdentityAfterCreate(r.ret)
    /\ UNCHANGED <<extraVars, base_url, validation, runnerVars, mark, expected_fields,
                   verify_response, mismatches, summary>>

\* 2. READ: GET base
ListAll ==
    /\ pc = "list"
    /\ \E ans \in LifecycleAnswers(200, {ListBody}) :
        Executes(test_get(results, base_url, <<>>, 200, ans), ans, 200)
    /\ pc' = AfterListAll(resource_id)
    /\ UNCHANGED <<extraVars, base_url, validation, runnerVars, mark, expected_fields, resource_id,
                   post_response, verify_response, mismatches, exception,
                   summary>>

\* 3. READ: GET base/{id} and the field check
FetchOne ==
    /\ pc = "fetch"
    /\ \E ans \in LifecycleAnswers(200, ResourceBodies) :
        LET r == test_get(results, base_url, IdEndpoint(resource_id), 200, ans)
        IN /\ Executes(r, ans, 200)
           /\ IF FieldCheckRaises(r.ret, expected_fields)
              THEN pc' = "raised" /\ exception' = "TypeError"
              ELSE pc' = "put" /\ exception' = exception
    /\ UNCHANGED <<extraVars, base_url, validation, runnerVars, mark, expected_fields, resource_id,
                   post_response, verify_response, mismatches, summary>>

\* 4. UPDATE: PUT base/{id}
FullUpdate ==
    /\ pc = "put"
    /\ \E ans \in LifecycleAnswers(200, ResourceBodies) :
        LET r == test_put(results, base_url, IdEndpoint(resource_id),
                          UpdateData, 200, ans)
        IN /\ Executes(r, ans, 200)
           /\ pc' = AfterFullUpdate(r.ret)
    /\ UNCHANGED <<extraVars, base_url, validation, runnerVars, mark, expected_fields, resource_id,
                   post_response, verify_response, mismatches, exception,
                   summary>>

\* 5. verify the PUT: GET base/{id} and the comparison loop
VerifyFullUpdate ==
    /\ pc = "verify_put"
    /\ \E ans \in LifecycleAnswers(200, ResourceBodies) :
        LET r == test_get(results, base_url, IdEndpoint(resource_id), 200, ans)
        IN /\ Executes(r, ans, 200)
           /\ verify_response' = r.ret
           /\ mismatches' = VerifiedMismatches(mismatches, UpdateData, r.ret)
    /\ pc' = "patch"
    /\ UNCHANGED <<extraVars, base_url, validation, runnerVars, mark, expected_fields, resource_id,
                   post_response, exception, summary>>

\* 6. UPDATE: PATCH base/{id}
PartialUpdate ==
    /\ pc = "patch"
    /\ \E ans \in LifecycleAnswers(200, ResourceBodies) :
        LET r == test_patch(results, base_url, IdEndpoint(resource_id),
                            PatchData, 200, ans)
        IN /\ Executes(r, ans, 200)
           /\ pc' = AfterPartialUpdate(r.ret)
    /\ UNCHANGED <<extraVars, base_url, validation, runnerVars, mark, expected_fields, resource_id,
                   post_response, verify_response, mismatches, exception,
                   summary>>

\* 7. verify the PATCH: GET base/{id} and the comparison loop
VerifyPartialUpdate ==
    /\ pc = "verify_patch"
    /\ \E ans \in LifecycleAnswers(200, ResourceBodies) :
        LET r == test_get(results, base_url, IdEndpoint(resource_id), 200, ans)
        IN /\ Executes(r, ans, 200)
           /\ verify_response' = r.ret
           /\ mismatches' = VerifiedMismatches(mismatches, PatchData, r.ret)
    /\ pc' = "delete"
    /\ UNCHANGED <<extraVars, base_url, validation, runnerVars, mark, expected_fields, resource_id,
                   post_response, exception, summary>>

\* 8. DELETE base/{id}
Delete ==
    /\ pc = "delete"
    /\ \E ans \in LifecycleAnswers(200, {ErrorBody}) :
        Executes(test_delete(results, base_url, IdEndpoint(resource_id), 200,
                             ans), ans, 200)
    /\ pc' = "verify_deleted"
    /\ UNCHANGED <<extraVars, base_url, validation, runnerVars, mark, expected_fields, resource_id,
                   post_response, verify_response, mismatches, exception,
                   summary>>

\* 9. verify the deletion: GET base/{id} expecting 404
VerifyDeleted ==
    /\ pc = "verify_deleted"
    /\ \E ans \in LifecycleAnswers(404, {ErrorBody}) :
        Executes(test_get(results, base_url, IdEndpoint(resource_id), 404,
                          ans), ans, 404)
    /\ pc' = "edge_get"
    /\ UNCHANGED <<extraVars, base_url, validation, runnerVars, mark, expected_fields, resource_id,
                   post_response, verify_response, mismatches, exception,
                   summary>>

\* 10. edge cases: GET, DELETE of an id that does not exist, POST {}
EdgeGet ==
    /\ pc = "edge_get"
    /\ \E ans \in LifecycleAnswers(404, {ErrorBody}) :
        Executes(test_get(results, base_url, MissingEndpoint, 404, ans),
                 ans, 404)
    /\ pc' = "edge_delete"
    /\ UNCHANGED <<extraVars, base_url, validation, runnerVars, mark, expected_fields, resource_id,
                   post_response, verify_response, mismatches, exception,
                   summary>>

EdgeDelete ==
    /\ pc = "edge_delete"
    /\ \E ans \in LifecycleAnswers(404, {ErrorBody}) :
        Executes(test_delete(results, base_url, MissingEndpoint, 404, ans),
                 ans, 404)
    /\ pc' = "edge_post"
    /\ UNCHANGED <<extraVars, base_url, validation, runnerVars, mark, expected_fields, resource_id,
                   post_response, verify_response, mismatches, exception,
                   summary>>

\* the last request; the method then returns
EdgePost ==
    /\ pc = "edge_post"
    /\ \E ans \in LifecycleAnswers(400, {ErrorBody}) :
        Executes(test_post(results, base_url, <<>>, JObj(EmptyMap), 400, ans),
                 ans, 400)
    /\ pc' = "done"
    /\ UNCHANGED <<extraVars, base_url, validation, runnerVars, mark, expected_fields, resource_id,
                   post_response, verify_response, mismatches, exception,
                   summary>>

Next ==
    \/ StartAITests
    \/ AITestStep
    \/ AITestsReturn
    \/ GetSummary
    \/ StartCrudTest
    \/ Create
    \/ ListAll
    \/ FetchOne
    \/ FullUpdate
    \/ VerifyFullUpdate
    \/ PartialUpdate
    \/ VerifyPartialUpdate
    \/ Delete
    \/ VerifyDeleted
    \/ EdgeGet
    \/ EdgeDelete
    \/ EdgePost

Spec == Init /\ [][Next]_vars

(***************************************************************************)
(* get_summary on its own: an APITester whose log is any sequence of       *)
(* PASS and FAIL entries (log_result is only ever called with these two),  *)
(* and the call of get_summary on it.                                      *)
(***************************************************************************)
LoggedEntries ==
    {Entry(<<"GET http://x/items">>, status, <<>>) : status \in {"PASS", "FAIL"}}

InitSummary ==
    /\ base_url = <<"http://x/items">>
    /\ results \in SeqsUpTo(LoggedEntries, MaxEntries)
    /\ calls = <<>>
    /\ pc = "idle"
    /\ test_cases = <<>>
    /\ idx = 0
    /\ mark = 0
    /\ expected_fields = <<>>
    /\ resource_id = JNull
    /\ post_response = None
    /\ verify_response = None
    /\ mismatches = {}
    /\ faults = 0
    /\ exception = "none"
    /\ validation = NoValidation
    /\ summary = NoSummary
    /\ Elsewhere

NextSummary == GetSummary

SpecSummary == InitSummary /\ [][NextSummary]_vars

(***************************************************************************)
(* print_summary of the command-line scripts (auto_ap.py, auto_api.py) on  *)
(* its own: the totals and the percentages it prints.  The f-strings       *)
(* divide by total without a guard; raised is the ZeroDivisionError.       *)
(***************************************************************************)
print_summary(log) ==
    LET total == Len(log)
        passed == CountStatus(log, "PASS")
    IN IF total = 0
       THEN [raised |-> TRUE, printed |-> NoSummary]
       ELSE [raised |-> FALSE,
             printed |-> [total |-> total, passed |-> passed,
                          failed |-> total - passed,
                          pass_rate |-> [num |-> passed * 100, den |-> total]]]

\* self.print_summary() on a tester that has not printed yet
PrintSummary ==
    /\ pc = "idle"
    /\ summary = NoSummary
    /\ exception = "none"
    /\ LET p == print_summary(results)
       IN /\ summary' = p.printed
          /\ exception' = IF p.raised THEN "ZeroDivisionError" ELSE exception
    /\ UNCHANGED <<extraVars, base_url, validation, results, calls, pc, runnerVars, mark,
                   crudVars>>

NextPrint == PrintSummary

SpecPrint == InitSummary /\ [][NextPrint]_vars

(***************************************************************************)
(* The reduced GET/POST/DELETE suite: APITester.run_full_test_suite        *)
(* (auto_api.py).  Its test_get, test_post and test_delete are those of    *)
(* auto_ap.py.  One action per request.                                    *)
(***************************************************************************)
\* the default test_data
SuiteData ==
    JObj("name" :> JStr(<<"Test Item">>)
         @@ "description" :> JStr(<<"This is a test">>)
         @@ "value" :> JNum(123))

\* the try block that reads the id off the POST response: id, _id or uuid
ExtractIdSuite(response) ==
    IF ~response.valid THEN JNull
    ELSE IF response.json.t # "obj" THEN JNull
    ELSE PyOr(PyOr(DictGet(response.json, "id"), DictGet(response.json, "_id")),
              DictGet(response.json, "uuid"))

\* if resource_id: Test 3 runs, else the run goes to the else branch of Test 4
AfterSuitePost(id) == IF Truthy(id) THEN "suite_fetch" ELSE "suite_delete_base"

StartSuite ==
    /\ pc = "idle"
    /\ results = <<>>
    /\ resource_id' = JNull
    /\ post_response' = None
    /\ faults' = 0
    /\ pc' = "suite_get"
    /\ UNCHANGED <<extraVars, base_url, validation, results, calls, runnerVars, mark,
                   expected_fields, verify_response, mismatches, exception,
                   summary>>

\* Test 1: GET base
SuiteGet ==
    /\ pc = "suite_get"
    /\ \E ans \in LifecycleAnswers(200, {ListBody}) :
        Executes(test_get(results, base_url, <<>>, 200, ans), ans, 200)
    /\ pc' = "suite_post"
    /\ UNCHANGED <<extraVars, base_url, validation, runnerVars, mark, expected_fields,
                   resource_id, post_response, verify_response, mismatches,
                   exception, summary>>

\* Test 2: POST base and the identity extraction
SuitePost ==
    /\ pc = "suite_post"
    /\ \E ans \in LifecycleAnswers(201, CreatedBodies) :
        LET r == test_post(results, base_url, <<>>, SuiteData, 201, ans)
            id == IF ResponseTruthy(r.ret) THEN ExtractIdSuite(r.ret) ELSE JNull
        IN /\ Executes(r, ans, 201)
           /\ post_response' = r.ret
           /\ resource_id' = id
           /\ pc' = AfterSuitePost(id)
    /\ UNCHANGED <<extraVars, base_url, validation, runnerVars, mark, expected_fields,
                   verify_response, mismatches, exception, summary>>

\* Test 3: GET base/{id}
SuiteFetch ==
    /\ pc = "suite_fetch"
    /\ \E ans \in LifecycleAnswers(200, ResourceBodies) :
        Executes(test_get(results, base_url, IdEndpoint(resource_id), 200, ans),
                 ans, 200)
    /\ pc' = "suite_delete"
    /\ UNCHANGED <<extraVars, base_url, validation, runnerVars, mark, expected_fields,
                   resource_id, post_response, verify_response, mismatches,
                   exception, summary>>

\* Test 4: DELETE base/{id}
SuiteDelete ==
    /\ pc = "suite_delete"
    /\ \E ans \in LifecycleAnswers(200, {ErrorBody}) :
        Executes(test_delete(results, base_url, IdEndpoint(resource_id), 200,
                             ans), ans, 200)
    /\ pc' = "suite_verify_deleted"
    /\ UNCHANGED <<extraVars, base_url, validation, runnerVars, mark, expected_fields,
                   resource_id, post_response, verify_response, mismatches,
                   exception, summary>>

\* Test 5: GET base/{id} expecting 404, then print_summary
SuiteVerifyDeleted ==
    /\ pc = "suite_verify_deleted"
    /\ \E ans \in LifecycleAnswers(404, {ErrorBody}) :
        LET r == test_get(results, base_url, IdEndpoint(resource_id), 404, ans)
        IN /\ Executes(r, ans, 404)
           /\ summary' = print_summary(r.results).printed
    /\ pc' = "suite_done"
    /\ UNCHANGED <<extraVars, base_url, validation, runnerVars, mark, expected_fields,
                   resource_id, post_response, verify_response, mismatches,
                   exception>>

\* Test 4 without an id: self.test_delete(), then print_summary
SuiteDeleteBase ==
    /\ pc = "suite_delete_base"
    /\ \E ans \in LifecycleAnswers(200, {ErrorBody}) :
        LET r == test_delete(results, base_url, <<>>, 200, ans)
        IN /\ Executes(r, ans, 200)
           /\ summary' = print_summary(r.results).printed
    /\ pc' = "suite_done"
    /\ UNCHANGED <<extraVars, base_url, validation, runnerVars, mark, expected_fields,
                   resource_id, post_response, verify_response, mismatches,
                   exception>>

NextSuite ==
    \/ StartSuite
    \/ SuiteGet
    \/ SuitePost
    \/ SuiteFetch
    \/ SuiteDelete
    \/ SuiteVerifyDeleted
    \/ SuiteDeleteBase

SpecSuite == Init /\ [][NextSuite]_vars

(***************************************************************************)
(* validate_response_data on its own: a response with any body, any list   *)
(* of expected field paths, and the call of the function on them.          *)
(***************************************************************************)
ValidatedBodies ==
    CreatedBodies \cup
    { Body(<<"[id]">>, JList("0" :> JStr(<<"id">>))),
      Body(<<"[]">>, JList(EmptyMap)),
      Body(<<"valid">>, JStr(<<"val", "id">>)),
      Body(<<"5">>, JNum(5)),
      Body(<<"true">>, JBool(TRUE)) }

FieldLists ==
    { <<>>, << <<"id">> >>, << <<"data", ".", "id">> >>,
      << <<"id">>, <<"data", ".", "id">> >>, << <<"name">> >>,
      << <<"data", ".", "id", ".", "x">>, <<"name">> >> }

InitValidate ==
    /\ base_url = <<"http://x/items">>
    /\ results = <<>>
    /\ calls = <<>>
    /\ pc = "idle"
    /\ test_cases = <<>>
    /\ idx = 0
    /\ mark = 0
    /\ expected_fields \in FieldLists
    /\ resource_id = JNull
    /\ post_response \in {Response(201, b) : b \in ValidatedBodies}
    /\ verify_response = None
    /\ mismatches = {}
    /\ faults = 0
    /\ exception = "none"
    /\ validation = NoValidation
    /\ summary = NoSummary
    /\ Elsewhere

\* is_valid, msg = self.validate_response_data(post_response, expected_fields)
Validate ==
    /\ validation = NoValidation
    /\ validation' = validate_response_data(post_response, expected_fields)
    /\ UNCHANGED <<extraVars, base_url, results, calls, pc, runnerVars, mark,
                   crudVars,
                   exception, summary>>

NextValidate == Validate

SpecValidate == InitValidate /\ [][NextValidate]_vars

(***************************************************************************)
(* The URL of a request: an APITester built from any base_url argument     *)
(* (__init__ of auto_ap.py, V1.py, V4.py) and the data-driven runner       *)
(* making requests with it.  raw_url keeps the argument.                   *)
(***************************************************************************)
InitUrl ==
    /\ raw_url \in RawBaseUrls
    /\ base_url = Rstrip(raw_url, "/")
    /\ results = <<>>
    /\ calls = <<>>
    /\ pc = "idle"
    /\ test_cases = <<>>
    /\ idx = 0
    /\ mark = 0
    /\ expected_fields = <<>>
    /\ resource_id = JNull
    /\ post_response = None
    /\ verify_response = None
    /\ mismatches = {}
    /\ faults = 0
    /\ exception = "none"
    /\ validation = NoValidation
    /\ summary = NoSummary
    /\ crud_args = NoArgs
    /\ NoGenerator
    /\ NoStores
    /\ NoV1

NextUrl ==
    \/ StartAITests
    \/ AITestStep
    \/ AITestsReturn

SpecUrl == InitUrl /\ [][NextUrl]_vars

(***************************************************************************)
(* The generative producer and its hand-off to the runner (V4.py):         *)
(* GeminiTestGenerator.generate_test_cases, analyze_failures_and_          *)
(* generate_more, and the handlers of main() that store what they return   *)
(* and run it.  A call of the model either raises, or gives a text that    *)
(* json.loads parses ("json"), a text it parses only after the quote and   *)
(* literal replacements ("repairable"), or a text it never parses          *)
(* ("garbage").                                                            *)
(***************************************************************************)
max_retries == 3
analyze_max_retries == 2

RequiredKeys == {"method", "expected_status", "description"}

\* all(key in tc for key in ['method', 'expected_status', 'description'])
HasRequiredKeys(tc) == RequiredKeys \subseteq DOMAIN tc

\* the three tc.setdefault calls
SetDefaults(tc) ==
    tc @@ [endpoint |-> <<>>, data |-> JNull, category |-> "other"]

\* valid_cases
ValidCases(items) ==
    LET kept == SelectSeq(items, HasRequiredKeys)
    IN [i \in 1..Len(kept) |-> SetDefaults(kept[i])]

\* descriptors a model answer may hold
CompleteCase ==
    [method |-> "GET", expected_status |-> 200, description |-> <<"list">>]
IncompleteCase == [method |-> "DELETE", expected_status |-> 404]

\* what a model answer parses to
ParsedValues ==
    {JsonList(<<>>), JsonList(<<CompleteCase>>),
     JsonList(<<CompleteCase, IncompleteCase>>), JsonList(<<IncompleteCase>>),
     JsonDict}

ModelAnswers ==
    {[kind |-> k, value |-> NotReturned] : k \in {"raises", "garbage"}}
        \cup {[kind |-> k, value |-> v] :
                k \in {"json", "repairable"}, v \in ParsedValues}

\* what one iteration of a retry loop ends in
Continue == [returns |-> FALSE, value |-> NotReturned]
Return(value) == [returns |-> TRUE, value |-> value]

\* a loop in which no attempt counts as the last one
LastAttemptNever(a, retries) == FALSE

\* not (attempt < max_retries - 1)
LastAttempt(a, retries) == ~(a < retries - 1)

\* bool(test_cases) of a returned value
PyTruthy(v) == v.t = "dict" \/ (v.t = "list" /\ v.items # <<>>)

\* one iteration of the loop of generate_test_cases
generate_attempt(a, ans) ==
    IF ans.kind = "json"
    THEN LET v == ans.value
             valid_cases == IF v.t = "list" THEN ValidCases(v.items) ELSE <<>>
         IN IF v.t = "list" /\ Len(v.items) > 0 /\ valid_cases # <<>>
            THEN Return(JsonList(valid_cases))
            ELSE Continue
    ELSE IF ans.kind = "repairable"
    THEN IF ~LastAttempt(a, max_retries)
         THEN Return(ans.value)
         ELSE Return(JsonList(<<>>))
    ELSE IF ~LastAttempt(a, max_retries)
         THEN Continue
         ELSE Return(JsonList(<<>>))

\* one iteration of the loop of analyze_failures_and_generate_more
analyze_attempt(a, ans) ==
    IF ans.kind \in {"json", "repairable"}
    THEN IF ans.value.t = "list" /\ Len(ans.value.items) > 0
         THEN Return(ans.value)
         ELSE Continue
    ELSE IF ~LastAttempt(a, analyze_max_retries)
         THEN Continue
         ELSE Return(JsonList(<<>>))

\* the retry loop: one call of the model, then return, retry, or fall out of
\* the loop to the final return []
RetryLoopStep(outcome, retries, ans, returned_pc) ==
    /\ model_answers' = Append(model_answers, ans)
    /\ IF outcome.returns
       THEN /\ returned' = outcome.value
            /\ pc' = returned_pc
            /\ attempt' = attempt
       ELSE IF attempt + 1 < retries
       THEN /\ returned' = returned
            /\ pc' = pc
            /\ attempt' = attempt + 1
       ELSE /\ returned' = JsonList(<<>>)
            /\ pc' = returned_pc
            /\ attempt' = attempt

\* the Generate button: generate_test_cases is called
StartGenerate ==
    /\ pc = "idle"
    /\ attempt' = 0
    /\ model_answers' = <<>>
    /\ returned' = NotReturned
    /\ pc' = "generating"
    /\ UNCHANGED <<base_url, results, calls, runnerVars, mark, crudVars,
                   exception, validation, summary, raw_url, crud_args,
                   session_cases, storeVars, v1Vars>>

GenerateStep ==
    /\ pc = "generating"
    /\ \E ans \in ModelAnswers :
        RetryLoopStep(generate_attempt(attempt, ans), max_retries, ans,
                      "generated")
    /\ UNCHANGED <<base_url, results, calls, runnerVars, mark, crudVars,
                   exception, validation, summary, raw_url, crud_args,
                   session_cases, storeVars, v1Vars>>

\* main(): if test_cases: st.session_state.test_cases = test_cases, then the
\* page lists the stored cases by category (tc.get on every element)
StoreGenerated ==
    /\ pc = "generated"
    /\ session_cases' = IF PyTruthy(returned) THEN returned ELSE session_cases
    /\ IF session_cases'.t = "dict"
       THEN pc' = "raised" /\ exception' = "AttributeError"
       ELSE pc' = "idle" /\ exception' = exception
    /\ attempt' = 0
    /\ model_answers' = <<>>
    /\ returned' = NotReturned
    /\ UNCHANGED <<base_url, results, calls, runnerVars, mark, crudVars,
                   validation, summary, raw_url, crud_args, storeVars, v1Vars>>

\* the Run All Test Cases button: a new APITester runs the stored cases
RunAllTestCases ==
    /\ pc = "idle"
    /\ session_cases.items # <<>>
    /\ Len(session_cases.items) <= MaxCases
    /\ results' = <<>>
    /\ calls' = <<>>
    /\ test_cases' = session_cases.items
    /\ idx' = 1
    /\ mark' = 0
    /\ pc' = "ai_tests"
    /\ summary' = NoSummary
    /\ UNCHANGED <<base_url, crudVars, exception, validation, raw_url,
                   crud_args, genVars, storeVars, v1Vars>>

\* the Analyze Failures button, shown when the summary counts a failure
StartAnalyze ==
    /\ pc = "idle"
    /\ CountStatus(results, "FAIL") > 0
    /\ Len(session_cases.items) < MaxCases
    /\ attempt' = 0
    /\ model_answers' = <<>>
    /\ returned' = NotReturned
    /\ pc' = "analyzing"
    /\ UNCHANGED <<base_url, results, calls, runnerVars, mark, crudVars,
                   exception, validation, summary, raw_url, crud_args,
                   session_cases, storeVars, v1Vars>>

AnalyzeStep ==
    /\ pc = "analyzing"
    /\ \E ans \in ModelAnswers :
        RetryLoopStep(analyze_attempt(attempt, ans), analyze_max_retries, ans,
                      "analyzed")
    /\ UNCHANGED <<base_url, results, calls, runnerVars, mark, crudVars,
                   exception, validation, summary, raw_url, crud_args,
                   session_cases, storeVars, v1Vars>>

\* main(): if additional_tests: st.session_state.test_cases.extend(...)
StoreAdditional ==
    /\ pc = "analyzed"
    /\ session_cases' = IF PyTruthy(returned)
                        THEN JsonList(session_cases.items \o returned.items)
                        ELSE session_cases
    /\ pc' = "idle"
    /\ attempt' = 0
    /\ model_answers' = <<>>
    /\ returned' = NotReturned
    /\ UNCHANGED <<base_url, results, calls, runnerVars, mark, crudVars,
                   exception, validation, summary, raw_url, crud_args,
                   storeVars, v1Vars>>

NextGen ==
    \/ StartGenerate
    \/ GenerateStep
    \/ StoreGenerated
    \/ RunAllTestCases
    \/ AITestStep
    \/ AITestsReturn
    \/ StartAnalyze
    \/ AnalyzeStep
    \/ StoreAdditional

SpecGen == Init /\ [][NextGen]_vars

\* generate_test_cases and the handler that stores its result, on their own
NextGenerate ==
    \/ StartGenerate
    \/ GenerateStep
    \/ StoreGenerated

SpecGenerate == Init /\ [][NextGenerate]_vars

(***************************************************************************)
(* run_full_crud_test with its arguments, one request at a time and the    *)
(* answer of the target as a parameter: the method of auto_ap.py, then     *)
(* the copy in V1.py.  The executors of the two files are the same text.   *)
(***************************************************************************)
CrudPositions ==
    {"create", "list", "fetch", "put", "verify_put", "patch", "verify_patch",
     "delete", "verify_deleted", "edge_get", "edge_delete", "edge_post"}

Req(method, endpoint, data, expected_status) ==
    [method |-> method, endpoint |-> endpoint, data |-> data,
     expected_status |-> expected_status]

\* if create_data is None: create_data = {...}
Given(arg, default) == IF arg = JNull THEN default ELSE arg

\* the executor call of a request
Perform(log, base, req, ans) ==
    CASE req.method = "GET" ->
            test_get(log, base, req.endpoint, req.expected_status, ans)
      [] req.method = "POST" ->
            test_post(log, base, req.endpoint, req.data, req.expected_status,
                      ans)
      [] req.method = "PUT" ->
            test_put(log, base, req.endpoint, req.data, req.expected_status,
                     ans)
      [] req.method = "PATCH" ->
            test_patch(log, base, req.endpoint, req.data, req.expected_status,
                       ans)
      [] req.method = "DELETE" ->
            test_delete(log, base, req.endpoint, req.expected_status, ans)

\* auto_ap.py: the request made at a position
CrudRequest(at, id, args) ==
    CASE at = "create" ->
            Req("POST", <<>>, Given(args.create_data, CreateData), 201)
      [] at = "list" -> Req("GET", <<>>, JNull, 200)
      [] at = "fetch" -> Req("GET", IdEndpoint(id), JNull, 200)
      [] at = "put" ->
            Req("PUT", IdEndpoint(id), Given(args.update_data, UpdateData), 200)
      [] at = "verify_put" -> Req("GET", IdEndpoint(id), JNull, 200)
      [] at = "patch" ->
            Req("PATCH", IdEndpoint(id), Given(args.patch_data, PatchData),
                200)
      [] at = "verify_patch" -> Req("GET", IdEndpoint(id), JNull, 200)
      [] at = "delete" -> Req("DELETE", IdEndpoint(id), JNull, 200)
      [] at = "verify_deleted" -> Req("GET", IdEndpoint(id), JNull, 404)
      [] at = "edge_get" -> Req("GET", MissingEndpoint, JNull, 404)
      [] at = "edge_delete" -> Req("DELETE", MissingEndpoint, JNull, 404)
      [] at = "edge_post" -> Req("POST", <<>>, JObj(EmptyMap), 400)

\* auto_ap.py: the position after the request made at a position
CrudNext(at, ret, id, fields) ==
    CASE at = "create" ->
            IF FieldCheckRaises(ret, fields) THEN "raised" ELSE "list"
      [] at = "list" -> AfterListAll(id)
      [] at = "fetch" ->
            IF FieldCheckRaises(ret, fields) THEN "raised" ELSE "put"
      [] at = "put" -> AfterFullUpdate(ret)
      [] at = "verify_put" -> "patch"
      [] at = "patch" -> AfterPartialUpdate(ret)
      [] at = "verify_patch" -> "delete"
      [] at = "delete" -> "verify_deleted"
      [] at = "verify_deleted" -> "edge_get"
      [] at = "edge_get" -> "edge_delete"
      [] at = "edge_delete" -> "edge_post"
      [] at = "edge_post" -> "done"

\* auto_ap.py: one request of the run and what follows it up to the next
CrudStep(ans) ==
    LET req == CrudRequest(pc, resource_id, crud_args)
        r == Perform(results, base_url, req, ans)
        id == IF pc = "create" /\ ~FieldCheckRaises(r.ret, expected_fields)
              THEN IdentityAfterCreate(r.ret)
              ELSE resource_id
        next == CrudNext(pc, r.ret, id, expected_fields)
    IN /\ results' = r.results
       /\ calls' = Append(calls, r.call)
       /\ resource_id' = id
       /\ post_response' = IF pc = "create" THEN r.ret ELSE post_response
       /\ verify_response' = IF pc \in {"verify_put", "verify_patch"}
                             THEN r.ret ELSE verify_response
       /\ mismatches' =
            IF pc = "verify_put"
            THEN VerifiedMismatches(mismatches,
                                    Given(crud_args.update_data, UpdateData),
                                    r.ret)
            ELSE IF pc = "verify_patch"
            THEN VerifiedMismatches(mismatches,
                                    Given(crud_args.patch_data, PatchData),
                                    r.ret)
            ELSE mismatches
       /\ pc' = next
       /\ exception' = IF next = "raised" THEN "TypeError" ELSE exception

\* V1.py: the default bodies
V1CreateData ==
    JObj("name" :> JStr(<<"Test Item">>)
         @@ "description" :> JStr(<<"Test">>)
         @@ "value" :> JNum(123))
V1UpdateData ==
    JObj("name" :> JStr(<<"Updated Item">>)
         @@ "description" :> JStr(<<"Updated">>)
         @@ "value" :> JNum(456))
V1PatchData == JObj("description" :> JStr(<<"Partially updated">>))

\* V1.py: the request made at a position
V1Request(at, id, args) ==
    CASE at = "create" ->
            Req("POST", <<>>, Given(args.create_data, V1CreateData), 201)
      [] at = "list" -> Req("GET", <<>>, JNull, 200)
      [] at = "fetch" -> Req("GET", <<"/">> \o PyStr(id), JNull, 200)
      [] at = "put" ->
            Req("PUT", <<"/">> \o PyStr(id),
                Given(args.update_data, V1UpdateData), 200)
      [] at = "verify_put" -> Req("GET", <<"/">> \o PyStr(id), JNull, 200)
      [] at = "patch" ->
            Req("PATCH", <<"/">> \o PyStr(id),
                Given(args.patch_data, V1PatchData), 200)
      [] at = "verify_patch" -> Req("GET", <<"/">> \o PyStr(id), JNull, 200)
      [] at = "delete" -> Req("DELETE", <<"/">> \o PyStr(id), JNull, 200)
      [] at = "verify_deleted" -> Req("GET", <<"/">> \o PyStr(id), JNull, 404)
      [] at = "edge_get" -> Req("GET", <<"/nonexistent-id-12345">>, JNull, 404)
      [] at = "edge_delete" ->
            Req("DELETE", <<"/nonexistent-id-12345">>, JNull, 404)
      [] at = "edge_post" -> Req("POST", <<>>, JObj(EmptyMap), 400)

\* a copy that verifies an update whether or not the update got a response
V1AfterUpdateAlways(ret, verify, skip) == verify

\* V1.py: if put_response: / if patch_response: the verification GET follows
V1AfterUpdate(ret, verify, skip) == IF ResponseTruthy(ret) THEN verify ELSE skip

\* V1.py: the position after the request made at a position
V1Next(at, ret, id, fields) ==
    CASE at = "create" ->
            IF ResponseTruthy(ret) /\ fields # <<>>
               /\ validate_response_data(ret, fields).raised
            THEN "raised" ELSE "list"
      [] at = "list" -> IF Truthy(id) THEN "fetch" ELSE "edge_get"
      [] at = "fetch" ->
            IF ResponseTruthy(ret) /\ fields # <<>>
               /\ validate_response_data(ret, fields).raised
            THEN "raised" ELSE "put"
      [] at = "put" -> V1AfterUpdate(ret, "verify_put", "patch")
      [] at = "verify_put" -> "patch"
      [] at = "patch" -> V1AfterUpdate(ret, "verify_patch", "delete")
      [] at = "verify_patch" -> "delete"
      [] at = "delete" -> "verify_deleted"
      [] at = "verify_deleted" -> "edge_get"
      [] at = "edge_get" -> "edge_delete"
      [] at = "edge_delete" -> "edge_post"
      [] at = "edge_post" -> "done"

\* V1.py: one request of the run and what follows it up to the next
V1Step(ans) ==
    LET req == V1Request(v1_pc, v1_resource_id, crud_args)
        r == Perform(v1_results, base_url, req, ans)
        next == V1Next(v1_pc, r.ret, v1_resource_id, expected_fields)
        id == IF v1_pc = "create" /\ next # "raised" /\ ResponseTruthy(r.ret)
              THEN ExtractId(r.ret)
              ELSE v1_resource_id
    IN /\ v1_results' = r.results
       /\ v1_calls' = Append(v1_calls, r.call)
       /\ v1_resource_id' = id
       /\ v1_pc' = V1Next(v1_pc, r.ret, id, expected_fields)

(***************************************************************************)
(* The two copies side by side: a tester of each file, built on the same   *)
(* base URL, runs run_full_crud_test with the same arguments, and the      *)
(* target gives the k-th request of each the same answer.                  *)
(***************************************************************************)
\* data arguments passed explicitly
GivenCreate == JObj("name" :> JStr(<<"Apple">>) @@ "stock" :> JNum(5))
GivenUpdate == JObj("name" :> JStr(<<"Pear">>) @@ "stock" :> JNum(6))
GivenPatch == JObj("stock" :> JNum(7))

TwinArgs ==
    {NoArgs, CrudArgs(GivenCreate, JNull, JNull),
     CrudArgs(GivenCreate, GivenUpdate, GivenPatch)}

TwinFields == {<<>>, << <<"id">> >>}

\* bodies the target gives with the expected status
TwinBodies(at) ==
    IF at \in {"create", "fetch"}
    THEN {Body(<<"{id: 7, name: Apple}">>,
               JObj("id" :> JNum(7) @@ "name" :> JStr(<<"Apple">>))),
          Body(<<"null">>, JNull)}
    ELSE {ErrorBody}

\* the request both testers are at (the running one's, when one has ended)
TwinRequest ==
    IF pc \in CrudPositions
    THEN CrudRequest(pc, resource_id, crud_args)
    ELSE V1Request(v1_pc, v1_resource_id, crud_args)

StartTwin ==
    /\ pc = "idle"
    /\ v1_pc = "idle"
    /\ results = <<>>
    /\ crud_args' \in TwinArgs
    /\ expected_fields' \in TwinFields
    /\ pc' = "create"
    /\ v1_pc' = "create"
    /\ UNCHANGED <<base_url, results, calls, runnerVars, mark, resource_id,
                   post_response, verify_response, mismatches, faults,
                   exception, validation, summary, raw_url, genVars,
                   storeVars, v1_results, v1_calls, v1_resource_id>>

TwinStep ==
    /\ pc \in CrudPositions \/ v1_pc \in CrudPositions
    /\ \E ans \in LifecycleAnswers(TwinRequest.expected_status,
                                   TwinBodies(IF pc \in CrudPositions
                                              THEN pc ELSE v1_pc)) :
        /\ IsFault(ans, TwinRequest.expected_status) => faults < MaxFaults
        /\ faults' = IF IsFault(ans, TwinRequest.expected_status)
                     THEN faults + 1 ELSE faults
        /\ IF pc \in CrudPositions
           THEN CrudStep(ans)
           ELSE UNCHANGED <<results, calls, resource_id, post_response,
                            verify_response, mismatches, pc, exception>>
        /\ IF v1_pc \in CrudPositions
           THEN V1Step(ans)
           ELSE UNCHANGED v1Vars
    /\ UNCHANGED <<base_url, runnerVars, mark, expected_fields, validation,
                   summary, raw_url, crud_args, genVars, storeVars>>

NextTwin ==
    \/ StartTwin
    \/ TwinStep

SpecTwin == Init /\ [][NextTwin]_vars

(***************************************************************************)
(* The two sample stores (API's/one.py, API's/two.py) and a lifecycle run  *)
(* against them.  A record is the dict the store keeps, a map from keys to *)
(* JSON values.  The stores are separate servers: a behaviour follows the  *)
(* one base_url names, its clients making requests of their own between    *)
(* the runs of the tester.                                                 *)
(***************************************************************************)
EmployeesUrl == <<"http://x/employees">>
ProductsUrl == <<"http://x/products">>

\* the <int:id> converter: the id an endpoint "/<digits>" names, else -1
IdOf(endpoint) ==
    IF \E n \in 0..9 : endpoint = <<"/">> \o ToText(n)
    THEN CHOOSE n \in 0..9 : endpoint = <<"/">> \o ToText(n)
    ELSE -1

\* Flask's own answers: no route matches, the route has no such method
NotFoundPage == Response(404, TextBody(<<"<html>404 Not Found</html>">>))
MethodNotAllowedPage ==
    Response(405, TextBody(<<"<html>405 Method Not Allowed</html>">>))

\* jsonify(record), jsonify(list of records), jsonify({"error": ...})
RecordBody(rec) ==
    Body(<<"{id: ">> \o PyStr(rec["id"]) \o <<", ...}">>, JObj(rec))
RecordsBody(recs) ==
    Body(<<"[">> \o ToText(Len(recs)) \o <<" records]">>,
         JList([k \in {Digit(i - 1) : i \in 1..Len(recs)} |->
                    JObj(recs[CHOOSE i \in 1..Len(recs) : Digit(i - 1) = k])]))
MessageBody(key, text) == Body(<<"{">>  \o <<key>> \o <<": ">> \o text \o <<"}">>,
                               JObj(key :> JStr(text)))

\* next((emp for emp in employees if emp["id"] == emp_id), None): its index
FirstWithId(emps, n) ==
    IF \E i \in 1..Len(emps) : emps[i]["id"] = JNum(n)
    THEN CHOOSE i \in 1..Len(emps) :
            /\ emps[i]["id"] = JNum(n)
            /\ \A j \in 1..(i - 1) : emps[j]["id"] # JNum(n)
    ELSE 0

EmployeeRequired == {"name", "place", "email", "designation", "description"}

\* one.py get_employees
get_employees(emps) ==
    [answer |-> Response(200, RecordsBody(emps)), employees |-> emps]

\* one.py get_employee
get_employee(emps, n) ==
    [answer |-> IF FirstWithId(emps, n) # 0
                THEN Response(200, RecordBody(emps[FirstWithId(emps, n)]))
                ELSE Response(404, MessageBody("error", <<"Employee not found">>)),
     employees |-> emps]

\* one.py add_employee
add_employee(emps, data) ==
    IF ~(EmployeeRequired \subseteq DOMAIN data.m)
    THEN [answer |-> Response(400, MessageBody("error", <<"Missing fields">>)),
          employees |-> emps]
    ELSE LET new_employee ==
                "id" :> JNum(Len(emps) + 1)
                @@ [k \in EmployeeRequired |-> data.m[k]]
                @@ "department" :> (IF "department" \in DOMAIN data.m
                                    THEN data.m["department"]
                                    ELSE JStr(<<"General">>))
                @@ "phone" :> (IF "phone" \in DOMAIN data.m
                               THEN data.m["phone"] ELSE JStr(<<"N/A">>))
         IN [answer |-> Response(201, RecordBody(new_employee)),
             employees |-> Append(emps, new_employee)]

\* one.py update_employee
update_employee(emps, n, data) ==
    LET at == FirstWithId(emps, n)
        employee == [k \in DOMAIN emps[at] |->
                        IF k \in DOMAIN data.m THEN data.m[k] ELSE emps[at][k]]
    IN IF at = 0
       THEN [answer |-> Response(404, MessageBody("error",
                                                  <<"Employee not found">>)),
             employees |-> emps]
       ELSE [answer |-> Response(200, RecordBody(employee)),
             employees |-> [emps EXCEPT ![at] = employee]]

\* one.py delete_employee
delete_employee(emps, n) ==
    LET keep(emp) == emp["id"] # JNum(n)
    IN [answer |-> Response(200, MessageBody("message", <<"Employee deleted">>)),
        employees |-> SelectSeq(emps, keep)]

\* one.py: the routes
employee_app(emps, req) ==
    IF req.endpoint = <<>>
    THEN CASE req.method = "GET" -> get_employees(emps)
           [] req.method = "POST" -> add_employee(emps, req.data)
           [] OTHER -> [answer |-> MethodNotAllowedPage, employees |-> emps]
    ELSE IF IdOf(req.endpoint) >= 0
    THEN CASE req.method = "GET" -> get_employee(emps, IdOf(req.endpoint))
           [] req.method = "PUT" ->
                update_employee(emps, IdOf(req.endpoint), req.data)
           [] req.method = "DELETE" ->
                delete_employee(emps, IdOf(req.endpoint))
           [] OTHER -> [answer |-> MethodNotAllowedPage, employees |-> emps]
    ELSE [answer |-> NotFoundPage, employees |-> emps]

\* two.py validate_product: TRUE when the list of errors is empty
validate_product(data) ==
    /\ "name" \in DOMAIN data.m /\ Truthy(data.m["name"])
    /\ "description" \in DOMAIN data.m /\ Truthy(data.m["description"])
    /\ "stock" \in DOMAIN data.m /\ data.m["stock"].t = "num"
    /\ data.m["stock"].n >= 0
    /\ "price" \in DOMAIN data.m /\ data.m["price"].t = "num"
    /\ data.m["price"].n >= 0

Timestamp == JStr(<<"2024-01-01T00:00:00">>)
ProductFields == {"name", "description", "stock", "price"}

\* two.py create_product
create_product(prods, nid, data) ==
    IF ~validate_product(data)
    THEN [answer |-> Response(400, MessageBody("error", <<"Validation failed">>)),
          products |-> prods, next_id |-> nid]
    ELSE LET product == "id" :> JNum(nid)
                        @@ [k \in ProductFields |-> data.m[k]]
                        @@ "created_at" :> Timestamp
         IN [answer |-> Response(201, RecordBody(product)),
             products |-> (nid :> product) @@ prods,
             next_id |-> nid + 1]

\* two.py get_products
get_products(prods, nid) ==
    LET ids == DOMAIN prods
        listed == [i \in 1..Cardinality(ids) |->
                    prods[CHOOSE k \in ids :
                            Cardinality({j \in ids : j < k}) = i - 1]]
    IN [answer |-> Response(200, RecordsBody(listed)),
        products |-> prods, next_id |-> nid]

\* two.py get_product
get_product(prods, nid, n) ==
    [answer |-> IF n \in DOMAIN prods
                THEN Response(200, RecordBody(prods[n]))
                ELSE Response(404, MessageBody("error", <<"Product not found">>)),
     products |-> prods, next_id |-> nid]

\* two.py update_product
update_product(prods, nid, n, data) ==
    IF n \notin DOMAIN prods
    THEN [answer |-> Response(404, MessageBody("error", <<"Product not found">>)),
          products |-> prods, next_id |-> nid]
    ELSE IF ~validate_product(data)
    THEN [answer |-> Response(400, MessageBody("error", <<"Validation failed">>)),
          products |-> prods, next_id |-> nid]
    ELSE LET product == [k \in ProductFields |-> data.m[k]]
                        @@ "updated_at" :> Timestamp
                        @@ prods[n]
         IN [answer |-> Response(200, RecordBody(product)),
             products |-> [prods EXCEPT ![n] = product],
             next_id |-> nid]

\* two.py delete_product
delete_product(prods, nid, n) ==
    IF n \notin DOMAIN prods
    THEN [answer |-> Response(404, MessageBody("error", <<"Product not found">>)),
          products |-> prods, next_id |-> nid]
    ELSE [answer |-> Response(200, MessageBody("message",
                                               <<"Product deleted successfully">>)),
          products |-> [k \in DOMAIN prods \ {n} |-> prods[k]],
          next_id |-> nid]

\* two.py: the routes under /products
product_app(prods, nid, req) ==
    IF req.endpoint = <<>>
    THEN CASE req.method = "GET" -> get_products(prods, nid)
           [] req.method = "POST" -> create_product(prods, nid, req.data)
           [] OTHER -> [answer |-> MethodNotAllowedPage, products |-> prods,
                        next_id |-> nid]
    ELSE IF IdOf(req.endpoint) >= 0
    THEN CASE req.method = "GET" -> get_product(prods, nid, IdOf(req.endpoint))
           [] req.method = "PUT" ->
                update_product(prods, nid, IdOf(req.endpoint), req.data)
           [] req.method = "DELETE" ->
                delete_product(prods, nid, IdOf(req.endpoint))
           [] OTHER -> [answer |-> MethodNotAllowedPage, products |-> prods,
                        next_id |-> nid]
    ELSE [answer |-> NotFoundPage, products |-> prods, next_id |-> nid]

\* the store base_url names answers a request
Server(base, emps, prods, nid, req) ==
    IF base = EmployeesUrl
    THEN employee_app(emps, req) @@ [products |-> prods, next_id |-> nid]
    ELSE product_app(prods, nid, req) @@ [employees |-> emps]

\* the records a store holds
EmployeeRecords(emps) == {emps[i] : i \in 1..Len(emps)}
ProductRecords(prods) == {prods[k] : k \in DOMAIN prods}
StoreRecords(base, emps, prods) ==
    IF base = EmployeesUrl THEN EmployeeRecords(emps) ELSE ProductRecords(prods)

\* bodies the clients and the tester send
EmployeeData ==
    JObj("name" :> JStr(<<"Ann">>) @@ "place" :> JStr(<<"Pune">>)
         @@ "email" :> JStr(<<"ann@x">>) @@ "designation" :> JStr(<<"Dev">>)
         @@ "description" :> JStr(<<"An employee">>))
EmployeeUpdates ==
    {JObj("name" :> JStr(<<"Bob">>)), JObj("id" :> JNum(1))}
ProductData ==
    JObj("name" :> JStr(<<"Apple">>) @@ "description" :> JStr(<<"A fruit">>)
         @@ "stock" :> JNum(5) @@ "price" :> JNum(10))
ProductUpdate ==
    JObj("name" :> JStr(<<"Pear">>) @@ "description" :> JStr(<<"A fruit">>)
         @@ "stock" :> JNum(6) @@ "price" :> JNum(10))

\* arguments of the run: omitted, or bodies one of the stores accepts
StoreArgs ==
    {NoArgs,
     CrudArgs(EmployeeData, JObj("name" :> JStr(<<"Eve">>)), JNull),
     CrudArgs(ProductData, ProductUpdate, JNull)}

InitStores ==
    /\ base_url \in {EmployeesUrl, ProductsUrl}
    /\ results = <<>>
    /\ calls = <<>>
    /\ pc = "idle"
    /\ test_cases = <<>>
    /\ idx = 0
    /\ mark = 0
    /\ expected_fields = <<>>
    /\ resource_id = JNull
    /\ post_response = None
    /\ verify_response = None
    /\ mismatches = {}
    /\ faults = 0
    /\ exception = "none"
    /\ validation = NoValidation
    /\ summary = NoSummary
    /\ Elsewhere

\* a client of the employee store: POST /employees
AddEmployee ==
    /\ pc = "idle"
    /\ base_url = EmployeesUrl
    /\ Len(employees) < MaxRecords
    /\ \E data \in {EmployeeData, JObj(EmptyMap)} :
        employees' = add_employee(employees, data).employees
    /\ UNCHANGED <<base_url, results, calls, pc, runnerVars, mark, crudVars,
                   exception, validation, summary, raw_url, crud_args,
                   genVars, products, next_id, before, v1Vars>>

\* PUT /employees/{id}
UpdateEmployee ==
    /\ pc = "idle"
    /\ base_url = EmployeesUrl
    /\ \E n \in 1..MaxRecords, data \in EmployeeUpdates :
        employees' = update_employee(employees, n, data).employees
    /\ UNCHANGED <<base_url, results, calls, pc, runnerVars, mark, crudVars,
                   exception, validation, summary, raw_url, crud_args,
                   genVars, products, next_id, before, v1Vars>>

\* DELETE /employees/{id}
DeleteEmployee ==
    /\ pc = "idle"
    /\ base_url = EmployeesUrl
    /\ \E n \in 1..MaxRecords :
        employees' = delete_employee(employees, n).employees
    /\ UNCHANGED <<base_url, results, calls, pc, runnerVars, mark, crudVars,
                   exception, validation, summary, raw_url, crud_args,
                   genVars, products, next_id, before, v1Vars>>

\* a client of the product store: POST /products
CreateProduct ==
    /\ pc = "idle"
    /\ base_url = ProductsUrl
    /\ next_id <= MaxRecords
    /\ \E data \in {ProductData, JObj(EmptyMap)} :
        LET out == create_product(products, next_id, data)
        IN products' = out.products /\ next_id' = out.next_id
    /\ UNCHANGED <<base_url, results, calls, pc, runnerVars, mark, crudVars,
                   exception, validation, summary, raw_url, crud_args,
                   genVars, employees, before, v1Vars>>

\* PUT /products/{id}
UpdateProduct ==
    /\ pc = "idle"
    /\ base_url = ProductsUrl
    /\ \E n \in 1..MaxRecords :
        products' = update_product(products, next_id, n, ProductUpdate).products
    /\ UNCHANGED <<base_url, results, calls, pc, runnerVars, mark, crudVars,
                   exception, validation, summary, raw_url, crud_args,
                   genVars, employees, next_id, before, v1Vars>>

\* DELETE /products/{id}
DeleteProduct ==
    /\ pc = "idle"
    /\ base_url = ProductsUrl
    /\ \E n \in 1..MaxRecords :
        products' = delete_product(products, next_id, n).products
    /\ UNCHANGED <<base_url, results, calls, pc, runnerVars, mark, crudVars,
                   exception, validation, summary, raw_url, crud_args,
                   genVars, employees, next_id, before, v1Vars>>

\* a tester is built on the store and run_full_crud_test is called
StartStoreRun ==
    /\ pc = "idle"
    /\ Len(employees) <= MaxRecords
    /\ next_id <= MaxRecords + 1
    /\ crud_args' \in StoreArgs
    /\ before' = StoreRecords(base_url, employees, products)
    /\ results' = <<>>
    /\ calls' = <<>>
    /\ resource_id' = JNull
    /\ post_response' = None
    /\ verify_response' = None
    /\ mismatches' = {}
    /\ pc' = "create"
    /\ UNCHANGED <<base_url, runnerVars, mark, expected_fields, faults,
                   exception, validation, summary, raw_url, genVars,
                   employees, products, next_id, v1Vars>>

\* one request of the run, answered by the store
StoreRunStep ==
    /\ pc \in CrudPositions
    /\ LET out == Server(base_url, employees, products, next_id,
                         CrudRequest(pc, resource_id, crud_args))
       IN /\ CrudStep(out.answer)
          /\ employees' = out.employees
          /\ products' = out.products
          /\ next_id' = out.next_id
    /\ UNCHANGED <<base_url, runnerVars, mark, expected_fields, faults,
                   validation, summary, raw_url, crud_args, genVars, before,
                   v1Vars>>

\* the method has returned and the tester is dropped
StoreRunReturns ==
    /\ pc = "done"
    /\ pc' = "idle"
    /\ results' = <<>>
    /\ calls' = <<>>
    /\ resource_id' = JNull
    /\ post_response' = None
    /\ verify_response' = None
    /\ mismatches' = {}
    /\ crud_args' = NoArgs
    /\ before' = {}
    /\ UNCHANGED <<base_url, runnerVars, mark, expected_fields, faults,
                   exception, validation, summary, raw_url, genVars,
                   employees, products, next_id, v1Vars>>

NextStores ==
    \/ AddEmployee
    \/ UpdateEmployee
    \/ DeleteEmployee
    \/ CreateProduct
    \/ UpdateProduct
    \/ DeleteProduct
    \/ StartStoreRun
    \/ StoreRunStep
    \/ StoreRunReturns

SpecStores == InitStores /\ [][NextStores]_vars

(***************************************************************************)
(* Properties.                                                             *)
(***************************************************************************)
Last(q) == q[Len(q)]

Labels(log) == [i \in 1..Len(log) |-> log[i].test]

\* positions of run_full_crud_test after the Create request was answered
AfterCreatePcs ==
    {"list", "fetch", "put", "verify_put", "patch", "verify_patch", "delete",
     "verify_deleted", "edge_get", "edge_delete", "edge_post", "done",
     "raised"}

\* run_full_crud_test has returned, or an exception has left it
LifecycleEnded == pc \in {"done", "raised"}

EdgeLabels ==
    << <<"GET ">> \o base_url \o MissingEndpoint,
       <<"DELETE ">> \o base_url \o MissingEndpoint,
       <<"POST ">> \o base_url >>

\* the log of a lifecycle run without identity-dependent steps
ShortRunLabels ==
    << <<"POST ">> \o base_url, <<"GET ">> \o base_url >> \o EdgeLabels

\* the judgment descriptor tc deserves given the answer recorded in call
RunnerOutcomeOf(tc, call) ==
    IF /\ TcGet(tc, "method", "GET") \in SupportedMethods
       /\ call.received
       /\ call.status_code = TcGet(tc, "expected_status", 200)
    THEN "PASS" ELSE "FAIL"

\* C1: while run_ai_generated_tests replays a list, the log holds exactly one
\* outcome per descriptor already processed, appended in the order of the
\* list: outcome i of the run carries the name of descriptor i, belongs to the
\* request made for descriptor i and is the judgment of that descriptor; when
\* the list of N descriptors is exhausted exactly N outcomes were appended.
C1_RunnerAppendsInOrder ==
    pc = "ai_tests" =>
        /\ Len(results) = mark + idx - 1
        /\ Len(calls) = Len(results)
        /\ \A i \in 1..(idx - 1) :
            /\ results[mark + i].test = AITestName(i, test_cases[i])
            /\ calls[mark + i].method = TcGet(test_cases[i], "method", "GET")
            /\ calls[mark + i].url
                  = base_url \o TcGet(test_cases[i], "endpoint", <<>>)
            /\ results[mark + i].status
                  = RunnerOutcomeOf(test_cases[i], calls[mark + i])

\* a list of two descriptors replayed to the end, one failing and one passing
C1_Witness ==
    /\ pc = "ai_tests"
    /\ Len(test_cases) = 2
    /\ idx > Len(test_cases)
    /\ results[mark + 1].status = "FAIL"
    /\ results[mark + 2].status = "PASS"

\* C2: for every request the executor issued, the recorded outcome is PASS
\* exactly when a response was received and its status code equals the
\* expected one; otherwise (other status, transport error) it is FAIL.
C2_PassIffStatusMatches ==
    /\ Len(calls) = Len(results)
    /\ \A i \in 1..Len(results) :
        calls[i].sent =>
            /\ results[i].status \in {"PASS", "FAIL"}
            /\ results[i].status = "PASS"
                  <=> /\ calls[i].received
                      /\ calls[i].status_code = calls[i].expected_status

\* a log holding a PASS, a FAIL on another status and a FAIL on a transport
\* error
C2_Witness ==
    \E i, j, k \in 1..Len(results) :
        /\ results[i].status = "PASS"
        /\ calls[j].received /\ results[j].status = "FAIL"
        /\ calls[k].sent /\ ~calls[k].received /\ results[k].status = "FAIL"

\* the Create POST of the lifecycle run failed
CreateFailed ==
    /\ pc \in AfterCreatePcs
    /\ ~calls[1].received \/ calls[1].status_code # 201

\* C3: in run_full_crud_test, if the Create POST fails, no request to
\* base/{id} is issued in that run, and the finished run's log holds exactly
\* five outcomes: Create, ListAll and the three edge cases.
C3_FailedCreateSkipsIdentitySteps ==
    CreateFailed =>
        /\ \A i \in 1..Len(calls) :
            calls[i].url \in {base_url, base_url \o MissingEndpoint}
        /\ pc = "done" => /\ Labels(results) = ShortRunLabels
                          /\ results[1].status = "FAIL"

\* a finished lifecycle run whose Create failed
C3_Witness ==
    /\ pc = "done"
    /\ CreateFailed
    /\ Len(results) = 5

Present(j, key) == j.t = "obj" /\ key \in DOMAIN j.m /\ j.m[key] # JNull

\* the creation body exposes one of id, _id, uuid, data.id
ExposesIdentity(response) ==
    /\ response.valid
    /\ \/ Present(response.json, "id")
       \/ Present(response.json, "_id")
       \/ Present(response.json, "uuid")
       \/ /\ Present(response.json, "data")
          /\ Present(response.json.m["data"], "id")

\* C4: when Create passes (201) but the body exposes none of id, _id, uuid,
\* data.id, the identity-dependent steps are skipped and nothing is recorded
\* for them: the log of the run holds only the Create PASS, ListAll and the
\* three edge cases.
C4_NoIdentitySkipsSilently ==
    ( /\ LifecycleEnded
      /\ calls[1].received /\ calls[1].status_code = 201
      /\ ~ExposesIdentity(post_response) )
        => /\ Labels(results) = ShortRunLabels
           /\ results[1].status = "PASS"

\* the first present, non-null value among id, _id, uuid, data.id
FirstPresentNonNull(j) ==
    IF Present(j, "id") THEN j.m["id"]
    ELSE IF Present(j, "_id") THEN j.m["_id"]
    ELSE IF Present(j, "uuid") THEN j.m["uuid"]
    ELSE IF Present(j, "data") /\ Present(j.m["data"], "id")
    THEN j.m["data"].m["id"]
    ELSE JNull

\* C5: the identity extracted from a creation body is the first of id, _id,
\* uuid, data.id that is present and non-null, whatever value it holds
\* (0, "" and false included).
C5_FirstPresentNonNullWins ==
    ( /\ pc \in AfterCreatePcs \ {"raised"}
      /\ ResponseTruthy(post_response)
      /\ post_response.valid )
        => resource_id = FirstPresentNonNull(post_response.json)

\* C6: every lifecycle run issues and records ListAll and the three edge
\* cases, whatever the answers to Create and to the other steps and whether
\* or not expected_fields is given; the edge cases are the last three
\* outcomes of the run.
C6_ListAndEdgeCasesAlwaysRun ==
    LifecycleEnded =>
        /\ Len(results) >= 5
        /\ results[2].test = <<"GET ">> \o base_url
        /\ SubSeq(Labels(results), Len(results) - 2, Len(results)) = EdgeLabels

NumSent == Cardinality({i \in 1..Len(calls) : calls[i].sent})

\* C7 as stated: the number of outcomes equals the number of HTTP requests
\* attempted, descriptors with an unsupported method included.
C7_OutcomesEqualRequests == Len(results) = NumSent

\* C7, amended: every executor call records exactly one outcome, and a
\* request was attempted for exactly the calls with a supported method; a
\* call with an unsupported method records its FAIL without any request.
C7_OneOutcomePerExecutorCall ==
    /\ Len(results) = Len(calls)
    /\ \A i \in 1..Len(calls) :
        /\ calls[i].sent <=> calls[i].method \in SupportedMethods
        /\ ~calls[i].sent =>
            /\ results[i].status = "FAIL"
            /\ results[i].details = <<"Unsupported method: ", calls[i].method>>

\* a log with an outcome of an unsupported method and an outcome of a request
\* that failed in transport
C7_Witness ==
    \E i, j \in 1..Len(calls) :
        /\ ~calls[i].sent
        /\ calls[j].sent /\ ~calls[j].received
        /\ Len(results) = 2

\* C8: a descriptor whose method is not GET, POST, PUT, PATCH or DELETE makes
\* the runner append exactly one FAIL outcome naming the method, raises
\* nothing, and leaves the runner in its loop at the next descriptor.
C8_UnsupportedMethodFailsAndContinues ==
    [][ ( /\ pc = "ai_tests"
          /\ idx <= Len(test_cases)
          /\ TcGet(test_cases[idx], "method", "GET") \notin SupportedMethods )
        => /\ pc' = "ai_tests"
           /\ idx' = idx + 1
           /\ test_cases' = test_cases
           /\ exception' = "none"
           /\ Len(results') = Len(results) + 1
           /\ SubSeq(results', 1, Len(results)) = results
           /\ Last(results').status = "FAIL"
           /\ Contains(Last(results').details,
                       <<TcGet(test_cases[idx], "method", "GET")>>) ]_vars

\* the descriptor after an unsupported one has been executed
C8_Witness ==
    /\ pc = "ai_tests"
    /\ idx = 3
    /\ TcGet(test_cases[1], "method", "GET") = "TRACE"
    /\ Len(results) = mark + 2
    /\ calls[mark + 2].sent

\* the position that follows a lifecycle step whose request got no response
AfterNoResponse(step, id) ==
    CASE step = "create" -> "list"
      [] step = "list" -> IF Truthy(id) THEN "fetch" ELSE "edge_get"
      [] step = "fetch" -> "put"
      [] step = "put" -> "patch"
      [] step = "verify_put" -> "patch"
      [] step = "patch" -> "delete"
      [] step = "verify_patch" -> "delete"
      [] step = "delete" -> "verify_deleted"
      [] step = "verify_deleted" -> "edge_get"
      [] step = "edge_get" -> "edge_delete"
      [] step = "edge_delete" -> "edge_post"
      [] step = "edge_post" -> "done"
      [] step = "ai_tests" -> "ai_tests"

\* C9: a transport failure of any request appends exactly one FAIL outcome
\* whose detail carries the error text, raises nothing, and the run goes on
\* with the next step as if there were no response: after Create no identity
\* is extracted, after PUT and PATCH the verification GET is skipped.
C9_TransportFailureAbsorbed ==
    [][ ( /\ Len(calls') = Len(calls) + 1
          /\ Last(calls').sent
          /\ ~Last(calls').received )
        => /\ Len(results') = Len(results) + 1
           /\ SubSeq(results', 1, Len(results)) = results
           /\ Last(results').status = "FAIL"
           /\ Last(calls').error # <<>>
           /\ Contains(Last(results').details, Last(calls').error)
           /\ exception' = exception
           /\ pc' = AfterNoResponse(pc, resource_id)
           /\ pc = "create" => resource_id' = JNull
           /\ pc = "ai_tests" => idx' = idx + 1 ]_vars

\* a PUT that failed in transport was followed directly by the PATCH
C9_Witness ==
    \E i \in 1..(Len(calls) - 1) :
        /\ calls[i].method = "PUT"
        /\ calls[i].sent /\ ~calls[i].received
        /\ results[i].status = "FAIL"
        /\ calls[i + 1].method = "PATCH"

\* C10: the outcome log is append-only: whatever the APITester does
\* (executor call, lifecycle step, runner step, summary), the log before the
\* step is a prefix of the log after it.
C10_LogAppendOnly == [][IsPrefix(results, results')]_vars

\* a summary was taken of a log of several outcomes
C10_Witness ==
    /\ summary # NoSummary
    /\ summary.total = Len(results)
    /\ Len(results) >= 2

\* every request issued so far received the status it expected
AllExpected ==
    \A i \in 1..Len(calls) :
        /\ calls[i].sent /\ calls[i].received
        /\ calls[i].status_code = calls[i].expected_status

\* the twelve requests of a lifecycle run around identity id, in order
FullRunSteps(id) ==
    LET one == <<"/">> \o PyStr(id)
    IN << [method |-> "POST", label |-> "POST ", endpoint |-> <<>>,
           expected_status |-> 201],
          [method |-> "GET", label |-> "GET ", endpoint |-> <<>>,
           expected_status |-> 200],
          [method |-> "GET", label |-> "GET ", endpoint |-> one,
           expected_status |-> 200],
          [method |-> "PUT", label |-> "PUT ", endpoint |-> one,
           expected_status |-> 200],
          [method |-> "GET", label |-> "GET ", endpoint |-> one,
           expected_status |-> 200],
          [method |-> "PATCH", label |-> "PATCH ", endpoint |-> one,
           expected_status |-> 200],
          [method |-> "GET", label |-> "GET ", endpoint |-> one,
           expected_status |-> 200],
          [method |-> "DELETE", label |-> "DELETE ", endpoint |-> one,
           expected_status |-> 200],
          [method |-> "GET", label |-> "GET ", endpoint |-> one,
           expected_status |-> 404],
          [method |-> "GET", label |-> "GET ",
           endpoint |-> <<"/nonexistent-id-12345">>, expected_status |-> 404],
          [method |-> "DELETE", label |-> "DELETE ",
           endpoint |-> <<"/nonexistent-id-12345">>, expected_status |-> 404],
          [method |-> "POST", label |-> "POST ", endpoint |-> <<>>,
           expected_status |-> 400] >>

\* C11: in a lifecycle run in which Create returned identity X and every
\* request so far received its expected status, the outcomes so far are the
\* leading ones of POST base, GET base, GET base/X, PUT base/X, GET base/X,
\* PATCH base/X, GET base/X, DELETE base/X, GET base/X (expecting 404),
\* GET base/nonexistent-id-12345, DELETE base/nonexistent-id-12345, POST base,
\* all PASS, and the finished run holds exactly these twelve; for base
\* http://x/items and creation body {"id": 7, ...} FetchOne is
\* GET http://x/items/7.
C11_FullRunOrder ==
    (Truthy(resource_id) /\ AllExpected) =>
        LET steps == FullRunSteps(resource_id)
        IN /\ Len(results) = Len(calls)
           /\ Len(calls) <= 12
           /\ pc = "done" => Len(results) = 12
           /\ \A i \in 1..Len(calls) :
                /\ calls[i].method = steps[i].method
                /\ calls[i].url = base_url \o steps[i].endpoint
                /\ calls[i].expected_status = steps[i].expected_status
                /\ results[i].test
                      = <<steps[i].label>> \o base_url \o steps[i].endpoint
                /\ results[i].status = "PASS"
           /\ ( /\ Present(post_response.json, "id")
                /\ post_response.json.m["id"] = JNum(7)
                /\ Len(calls) >= 3 )
                => /\ calls[3].url = <<"http://x/items", "/", "7">>
                   /\ calls[3].method = "GET"

\* a finished run of twelve passing requests around identity 7
C11_Witness ==
    /\ pc = "done"
    /\ resource_id = JNum(7)
    /\ AllExpected
    /\ Len(results) = 12

\* the number of requests method base/{id} expecting status e issued so far
IssuedOnId(method, e) ==
    Cardinality({i \in 1..Len(calls) :
                    /\ calls[i].sent
                    /\ calls[i].method = method
                    /\ calls[i].url = base_url \o <<"/">> \o PyStr(resource_id)
                    /\ calls[i].expected_status = e})

\* C12: once an identity has been extracted, the run attempts FetchOne (the
\* request after ListAll), PUT, PATCH, DELETE and the GET expecting 404 on
\* base/{id} exactly once each, whatever the outcome of the earlier steps; and
\* a DELETE answered 200 followed by a GET answered 404 are both PASS.
C12_IdentityStepsEachOnce ==
    (LifecycleEnded /\ Truthy(resource_id)) =>
        /\ Len(calls) >= 3
        /\ calls[3].method = "GET"
        /\ calls[3].url = base_url \o <<"/">> \o PyStr(resource_id)
        /\ calls[3].expected_status = 200
        /\ IssuedOnId("PUT", 200) = 1
        /\ IssuedOnId("PATCH", 200) = 1
        /\ IssuedOnId("DELETE", 200) = 1
        /\ IssuedOnId("GET", 404) = 1
        /\ \A i \in 1..(Len(calls) - 1) :
            ( /\ calls[i].method = "DELETE" /\ calls[i].expected_status = 200
              /\ calls[i].received /\ calls[i].status_code = 200
              /\ calls[i + 1].received /\ calls[i + 1].status_code = 404 )
                => /\ results[i].status = "PASS"
                   /\ results[i + 1].status = "PASS"

\* the entries of the log with the given status, counted by position
NumWithStatus(status) ==
    Cardinality({i \in 1..Len(results) : results[i].status = status})

\* the summary that was returned describes the log
SummaryDescribesLog ==
    summary # NoSummary =>
        /\ summary.total = Len(results)
        /\ summary.passed = NumWithStatus("PASS")
        /\ summary.failed = summary.total - summary.passed
        /\ summary.failed = NumWithStatus("FAIL")
        /\ summary.pass_rate.den # 0
        /\ Len(results) = 0 => summary.pass_rate.num = 0
        /\ Len(results) > 0 =>
            summary.pass_rate.num * summary.total
                = summary.passed * 100 * summary.pass_rate.den
        /\ (summary.passed = 3 /\ summary.total = 4) =>
            summary.pass_rate.num = 75 * summary.pass_rate.den

\* C13: get_summary applied to any log returns total = number of entries,
\* passed = number of PASS entries, failed = total - passed = number of FAIL
\* entries, and pass_rate = passed/total*100 (75 for 3 passed of 4), with
\* pass_rate = 0 and no error when the log is empty; and it leaves the log
\* unchanged.
C13_SummaryCounts ==
    /\ []SummaryDescribesLog
    /\ [][summary' # summary => results' = results]_vars

\* the summary of a log of four entries, three of them PASS
C13_Witness ==
    /\ summary # NoSummary
    /\ summary.total = 4
    /\ summary.passed = 3
    /\ Len(results) = 4

\* the step is the verification GET of the update that sent body B, and it
\* was answered 200 with a JSON object
VerifiedObject(step) ==
    /\ pc = step
    /\ pc' # pc
    /\ ResponseTruthy(verify_response')
    /\ verify_response'.valid
    /\ verify_response'.json.t = "obj"

\* every key of B is a key of F with an equal value
HoldsAll(F, B) ==
    \A k \in DOMAIN B.m : k \in DOMAIN F.m /\ F.m[k] = B.m[k]

\* the body the comparison reads: the 'data' member of F when F has one
Compared(F) == IF "data" \in DOMAIN F.m THEN F.m["data"] ELSE F

\* C14 as stated: after the verification GET returned 200 with JSON body F
\* and the comparison ran to its end, the mismatch list is empty only if F
\* holds every key of the update (patch) body with an equal value.
C14_EmptyOnlyIfFetchedHoldsKeys ==
    [][ /\ ( VerifiedObject("verify_put")
             /\ Compared(verify_response'.json).t = "obj" ) =>
            (mismatches' = {} => HoldsAll(verify_response'.json, UpdateData))
        /\ ( VerifiedObject("verify_patch")
             /\ Compared(verify_response'.json).t = "obj" ) =>
            (mismatches' = {} => HoldsAll(verify_response'.json, PatchData))
      ]_vars

\* every key of B reads, in the mapping A, a value equal to B's (an absent
\* key reads null)
ReadsAll(A, B) ==
    \A k \in DOMAIN B.m :
        (IF k \in DOMAIN A.m THEN A.m[k] ELSE JNull) = B.m[k]

\* C14, amended: after the verification GET returned 200 with a JSON object F
\* whose 'data' member, if it has one, is an object, the mismatch list is
\* empty exactly when every key of the update (patch) body reads an equal
\* value in A, where A is F's 'data' member when F has one and F otherwise.
C14_EmptyIffComparedHoldsKeys ==
    [][ /\ ( VerifiedObject("verify_put")
             /\ Compared(verify_response'.json).t = "obj" ) =>
            (mismatches' = {}
                <=> ReadsAll(Compared(verify_response'.json), UpdateData))
        /\ ( VerifiedObject("verify_patch")
             /\ Compared(verify_response'.json).t = "obj" ) =>
            (mismatches' = {}
                <=> ReadsAll(Compared(verify_response'.json), PatchData))
      ]_vars

\* the PATCH verification fetched an enveloped body and listed no mismatch
C14_Witness ==
    /\ pc = "delete"
    /\ Len(calls) >= 2
    /\ calls[Len(calls) - 1].method = "PATCH"
    /\ Last(calls).method = "GET"
    /\ ResponseTruthy(verify_response)
    /\ verify_response.valid
    /\ "data" \in DOMAIN verify_response.json.m
    /\ verify_response.json.m["data"].t = "obj"
    /\ mismatches = {}

\* C15: whenever a response was received whose status differs from the
\* expected one, the outcome is FAIL and its detail names the expected and the
\* actual status code and includes the response body (every such answer of
\* the model carries the body of ErrorBody, shorter than any truncation), for
\* every HTTP method.
C15_MismatchDetailNamesStatusesAndBody ==
    \A i \in 1..Len(calls) :
        ( /\ calls[i].sent /\ calls[i].received
          /\ calls[i].status_code # calls[i].expected_status )
            => /\ results[i].status = "FAIL"
               /\ Contains(results[i].details, ToText(calls[i].expected_status))
               /\ Contains(results[i].details, ToText(calls[i].status_code))
               /\ Contains(results[i].details, ErrorBody.text)

\* two executor calls asked the same of the target and got the same answer
SameRequestAndAnswer(a, b) ==
    /\ a.method = b.method
    /\ a.url = b.url
    /\ a.expected_status = b.expected_status
    /\ a.sent = b.sent
    /\ a.received = b.received
    /\ a.status_code = b.status_code

\* the edge-case check GET base/nonexistent-id-12345 expecting 404
IsMissingIdCheck(call) ==
    /\ call.method = "GET"
    /\ call.url = base_url \o <<"/nonexistent-id-12345">>
    /\ call.expected_status = 404

\* C16: each descriptor of a data-driven run is judged on its own: the URL
\* requested for descriptor i is base + endpoint_i, and two requests that ask
\* the same and are answered the same get the same PASS/FAIL result wherever
\* they stand in the log and whatever was recorded before them; in
\* particular GET /nonexistent-id-12345 expecting 404 answered 404 is PASS on
\* every replay.
C16_JudgedIndependently ==
    /\ Len(calls) = Len(results)
    /\ pc = "ai_tests" =>
        \A i \in 1..(idx - 1) :
            calls[mark + i].url
                = base_url \o TcGet(test_cases[i], "endpoint", <<>>)
    /\ \A i, j \in 1..Len(calls) :
        SameRequestAndAnswer(calls[i], calls[j])
            => results[i].status = results[j].status
    /\ \A i \in 1..Len(calls) :
        ( /\ IsMissingIdCheck(calls[i])
          /\ calls[i].received /\ calls[i].status_code = 404 )
            => results[i].status = "PASS"

\* the check for the missing id replayed after a failed outcome, and passing
C16_Witness ==
    /\ Len(results) = 2
    /\ results[1].status = "FAIL"
    /\ IsMissingIdCheck(calls[1])
    /\ IsMissingIdCheck(calls[2])
    /\ calls[2].received /\ calls[2].status_code = 404
    /\ results[2].status = "PASS"

\* run_full_crud_test is running or has ended: every call so far is its own
InLifecycle == pc \notin {"idle", "ai_tests"}

\* call i + 1 is method on the URL of call i
NextIs(i, method, e) ==
    /\ calls[i + 1].method = method
    /\ calls[i + 1].url = calls[i].url
    /\ calls[i + 1].expected_status = e

\* C17 as stated: in a lifecycle run, the request issued after a PUT or a
\* PATCH on base/{id} is the verification GET on base/{id}, whether the
\* update passed or failed.
C17_VerifyFollowsEveryUpdate ==
    InLifecycle =>
        \A i \in 1..(Len(calls) - 1) :
            calls[i].method \in {"PUT", "PATCH"} => NextIs(i, "GET", 200)

\* C17, amended: the verification GET follows a PUT or PATCH exactly when the
\* update passed; after a failed PUT the next request is the PATCH, after a
\* failed PATCH the DELETE, with no verification GET in between.
C17_VerifyFollowsPassedUpdate ==
    InLifecycle =>
        /\ \A i \in 1..(Len(calls) - 1) :
            /\ (calls[i].method = "PUT" /\ results[i].status = "PASS")
                    => NextIs(i, "GET", 200)
            /\ (calls[i].method = "PUT" /\ results[i].status = "FAIL")
                    => NextIs(i, "PATCH", 200)
            /\ (calls[i].method = "PATCH" /\ results[i].status = "PASS")
                    => NextIs(i, "GET", 200)
            /\ (calls[i].method = "PATCH" /\ results[i].status = "FAIL")
                    => NextIs(i, "DELETE", 200)
        /\ (calls # <<>> /\ Last(calls).method = "PUT") =>
            pc = IF Last(results).status = "PASS" THEN "verify_put" ELSE "patch"
        /\ (calls # <<>> /\ Last(calls).method = "PATCH") =>
            pc = IF Last(results).status = "PASS" THEN "verify_patch"
                                                  ELSE "delete"

\* a PUT answered 500 was followed by the PATCH, which passed and was
\* followed by its verification GET
C17_Witness ==
    \E i \in 1..(Len(calls) - 2) :
        /\ InLifecycle
        /\ calls[i].method = "PUT"
        /\ calls[i].received /\ calls[i].status_code = 500
        /\ calls[i + 1].method = "PATCH"
        /\ results[i + 1].status = "PASS"
        /\ calls[i + 2].method = "GET"

\* the step is the verification GET after the update that sent body B, and
\* the body it fetched differs from B in some field
FetchedDiffers(step, B) ==
    /\ VerifiedObject(step)
    /\ Compared(verify_response'.json).t = "obj"
    /\ ~ReadsAll(Compared(verify_response'.json), B)

\* the step appended a FAIL outcome to the log
RecordsFail ==
    \E k \in (Len(results) + 1)..Len(results') : results'[k].status = "FAIL"

\* C18: when the verification GET after a successful PUT or PATCH returns a
\* body in which a field of the update (patch) body has another value, a FAIL
\* outcome is recorded in the log and the run continues with the next step.
C18_FieldMismatchRecordedAsFail ==
    [][ /\ FetchedDiffers("verify_put", UpdateData)
            => (RecordsFail /\ pc' = "patch")
        /\ FetchedDiffers("verify_patch", PatchData)
            => (RecordsFail /\ pc' = "delete")
      ]_vars

\* the response the step got back has a body that is not JSON
NotJson(response) == ResponseTruthy(response) /\ ~response.valid

\* C19: when a lifecycle step has to parse a response body (identity
\* extraction and field validation after Create, update verification) and the
\* body is not JSON, the step records a FAIL outcome, no exception escapes
\* and the run goes on with the next step.
C19_NonJsonBodyRecordedAsFail ==
    [][ /\ (pc = "create" /\ pc' # pc /\ NotJson(post_response'))
            => (RecordsFail /\ exception' = "none" /\ pc' = "list")
        /\ (pc = "verify_put" /\ pc' # pc /\ NotJson(verify_response'))
            => (RecordsFail /\ exception' = "none" /\ pc' = "patch")
        /\ (pc = "verify_patch" /\ pc' # pc /\ NotJson(verify_response'))
            => (RecordsFail /\ exception' = "none" /\ pc' = "delete")
      ]_vars

\* the segments of a field path: the path itself when it has no dot
Segments(path) == IF IsDotted(path) THEN Split(path) ELSE <<path[1]>>

\* some segment of the descent is absent, or the container reached there is
\* not a mapping
RECURSIVE PathMissing(_, _)
PathMissing(container, segments) ==
    IF segments = <<>> THEN FALSE
    ELSE IF container.t # "obj" THEN TRUE
    ELSE IF Head(segments) \notin DOMAIN container.m THEN TRUE
    ELSE PathMissing(container.m[Head(segments)], Tail(segments))

\* the paths of the list that are missing from the body, in order
RECURSIVE MissingPaths(_, _)
MissingPaths(paths, body) ==
    IF paths = <<>> THEN <<>>
    ELSE (IF PathMissing(body, Segments(Head(paths)))
          THEN <<Head(paths)>> ELSE <<>>)
            \o MissingPaths(Tail(paths), body)

\* C20: validate_response_data, for every parsed JSON body (mapping, list,
\* string, number, null) and every list of expected field paths, returns
\* without raising, reports a path as missing exactly when a segment of its
\* descent is absent or the container reached there is not a mapping, and
\* returns all-present = true exactly when no path is missing.
C20_FieldCheckTotalAndExact ==
    (validation # NoValidation /\ post_response.valid) =>
        /\ ~validation.raised
        /\ validation.missing = MissingPaths(expected_fields, post_response.json)
        /\ validation.ok <=> validation.missing = <<>>

\* C21: the field check never changes a lifecycle run: with expected_fields
\* given, satisfied or not, every step goes on exactly as it does without
\* them (after Create to ListAll with the identity read off the response,
\* after FetchOne to the PUT), so that requests and outcomes are those of the
\* run without expected_fields.
C21_FieldCheckNeverChangesRun ==
    [][ /\ (pc = "create" /\ pc' # pc) =>
            /\ pc' = "list"
            /\ resource_id' = IF ResponseTruthy(post_response')
                              THEN ExtractId(post_response') ELSE JNull
        /\ (pc = "fetch" /\ pc' # pc) => pc' = "put"
        /\ exception' = "none"
      ]_vars

\* the outcomes a finished lifecycle run may hold: 5 without identity, else
\* 10 plus one for each of the PUT and the PATCH that passed
RunCountRight ==
    IF ~Truthy(resource_id) THEN Len(results) = 5
    ELSE Len(results)
            = 10 + Cardinality({i \in 1..Len(results) :
                                   /\ calls[i].method \in {"PUT", "PATCH"}
                                   /\ results[i].status = "PASS"})

\* C26: when a run of run_full_crud_test has ended, the number of outcomes it
\* appended is 5 (no identity) or 10, 11 or 12 (identity extracted, plus one
\* for each of the PUT and PATCH that passed); no other count is reachable.
C26_RunLengths ==
    LifecycleEnded =>
        /\ Len(results) \in {5, 10, 11, 12}
        /\ RunCountRight

\* C23: print_summary called on an empty outcome log completes without error
\* and reports a pass rate of 0.
C23_EmptySummaryCompletes ==
    Len(results) = 0 =>
        /\ exception = "none"
        /\ summary # NoSummary => summary.pass_rate.num = 0

\* C22: in run_full_test_suite, when Create fails or no identity can be read
\* off its response, no DELETE request is issued at all.
C22_NoDeleteWithoutIdentity ==
    (pc = "suite_done" /\ ~Truthy(resource_id)) =>
        \A i \in 1..Len(calls) : calls[i].method # "DELETE"

\* the argument with one trailing slash removed, if it has one
OneSlashRemoved(raw) ==
    IF raw # <<>> /\ Last(raw) = "/" THEN SubSeq(raw, 1, Len(raw) - 1) ELSE raw

\* the argument up to its last character that is not a slash
EverySlashRemoved(raw) ==
    LET keep == {k \in 0..Len(raw) : k = 0 \/ raw[k] # "/"}
        n == CHOOSE k \in keep : \A j \in keep : j <= k
    IN SubSeq(raw, 1, n)

\* the endpoint the runner passes in the iteration it is in
RunnerEndpoint == TcGet(test_cases[idx], "endpoint", <<>>)

\* C25 (as stated): the URL of every request is the configured base URL
\* with exactly one trailing slash removed (if it has one), followed by the
\* endpoint suffix unchanged.
C25_OneTrailingSlashRemoved ==
    [][calls' # calls =>
        Last(calls').url = OneSlashRemoved(raw_url) \o RunnerEndpoint]_vars

\* C25 (amended): the URL of every request is the configured base URL with
\* every trailing slash removed, followed by the endpoint suffix unchanged;
\* no other characters of the base are removed.
C25_EveryTrailingSlashRemoved ==
    [][calls' # calls =>
        Last(calls').url = EverySlashRemoved(raw_url) \o RunnerEndpoint]_vars

\* a request was made by a tester built from a base ending in two slashes
C25_Witness ==
    /\ Len(raw_url) >= 2
    /\ raw_url[Len(raw_url)] = "/"
    /\ raw_url[Len(raw_url) - 1] = "/"
    /\ calls # <<>>
    /\ Last(calls).sent
    /\ Last(calls).url # OneSlashRemoved(raw_url)

\* an answer generate_test_cases accepts as the k-th of a call: a list with
\* a complete descriptor, or a text repaired before the last attempt
AcceptedAnswer(k, ans) ==
    \/ /\ ans.kind = "json"
       /\ ans.value.t = "list"
       /\ \E i \in 1..Len(ans.value.items) :
            HasRequiredKeys(ans.value.items[i])
    \/ ans.kind = "repairable" /\ k < 3

\* C30: generate_test_cases ends after at most 3 calls of the model whatever
\* the calls produce, returns the empty list when no attempt yields an
\* accepted answer, and never calls the model after an attempt has returned.
C30_GenerateEndsWithinThreeCalls ==
    /\ [](pc = "generating" =>
            Len(model_answers) < 3 /\ returned = NotReturned)
    /\ [](pc = "generated" =>
            /\ Len(model_answers) \in 1..3
            /\ returned.t # "none"
            /\ (\A k \in 1..Len(model_answers) :
                    ~AcceptedAnswer(k, model_answers[k]))
                => returned = JsonList(<<>>))
    /\ [][(pc = "generating" /\ model_answers' # model_answers) =>
            /\ returned = NotReturned
            /\ Len(model_answers') = Len(model_answers) + 1
            /\ (returned' # NotReturned => pc' = "generated")]_vars

\* three calls were made, a parse failure, a validation failure and an
\* error, and the empty list was returned
C30_Witness ==
    /\ pc = "generated"
    /\ Len(model_answers) = 3
    /\ model_answers[1].kind = "garbage"
    /\ model_answers[2] = [kind |-> "json", value |-> JsonList(<<IncompleteCase>>)]
    /\ model_answers[3].kind = "raises"
    /\ returned = JsonList(<<>>)

\* C24: every list of test cases the generator hands to the runner is a
\* list whose every element carries method, expected_status and
\* description; an incomplete model answer never reaches
\* run_ai_generated_tests.
C24_RunnerGetsCompleteDescriptors ==
    pc = "ai_tests" =>
        \A i \in 1..Len(test_cases) : HasRequiredKeys(test_cases[i])

\* what a request is on the wire, and what an outcome says
Wire(call) == [method |-> call.method, url |-> call.url, data |-> call.data]
Verdict(entry) == [test |-> entry.test, status |-> entry.status]

SameOutcomes ==
    /\ Len(results) = Len(v1_results)
    /\ \A i \in 1..Len(results) : Verdict(results[i]) = Verdict(v1_results[i])

\* the data argument a request of the lifecycle takes its body from
\* (JNull: omitted), for the requests that have one
BodyArgument(call) ==
    CASE call.method = "POST" /\ call.expected_status = 201 ->
            crud_args.create_data
      [] call.method = "PUT" -> crud_args.update_data
      [] call.method = "PATCH" -> crud_args.patch_data
      [] OTHER -> JObj(EmptyMap)

\* C29 (as stated): for the same base URL, inputs and server behaviour the
\* two copies of run_full_crud_test issue the same sequence of requests and
\* append the same sequence of (label, PASS/FAIL) outcomes.
C29_CopiesAgree ==
    /\ Len(calls) = Len(v1_calls)
    /\ \A i \in 1..Len(calls) : Wire(calls[i]) = Wire(v1_calls[i])
    /\ SameOutcomes

\* C29 (amended): they issue the same sequence of request methods and URLs,
\* with the same body in every request whose data argument was passed (the
\* default bodies of the two copies differ), and append the same sequence
\* of (label, PASS/FAIL) outcomes.
C29_CopiesAgreeUpToDefaultBodies ==
    /\ Len(calls) = Len(v1_calls)
    /\ \A i \in 1..Len(calls) :
        /\ calls[i].method = v1_calls[i].method
        /\ calls[i].url = v1_calls[i].url
        /\ BodyArgument(calls[i]) # JNull => calls[i].data = v1_calls[i].data
    /\ SameOutcomes

\* both copies ran all twelve requests with update data omitted, and the
\* bodies of their PUT requests differ
C29_Witness ==
    /\ pc = "done"
    /\ v1_pc = "done"
    /\ Len(calls) = 12
    /\ crud_args.create_data # JNull
    /\ crud_args.update_data = JNull
    /\ \E i \in 1..Len(calls) :
        calls[i].method = "PUT" /\ calls[i].data # v1_calls[i].data

\* C27: in the employee store, after any sequence of POST, PUT and DELETE
\* requests, no two stored employees have the same id.
C27_EmployeeIdsUnique ==
    \A i, j \in 1..Len(employees) :
        i # j => employees[i]["id"] # employees[j]["id"]

\* C28: a lifecycle run cleans up after itself: if every request of the run
\* received a response, the records of the store after the run are the
\* records before it.
C28_RunLeavesStoreAsFound ==
    (pc = "done" /\ \A i \in 1..Len(calls) : calls[i].received) =>
        StoreRecords(base_url, employees, products) = before

====
